---- MODULE Spec2Model ----
(***************************************************************************)
(* A model of chista's ServiceBase.run pipeline (src/src/ServiceBase.ts):  *)
(* validate -> checkPermissions -> aroundExecute -> execute ->             *)
(* onSuccess / onError, with the per-class validator cache, the chain of   *)
(* aroundExecute overrides and the ServiceError constructor.               *)
(*                                                                         *)
(* Spec: one service class is drawn in Init; its instances are run one     *)
(* after the other.  Every user-supplied callable (checkPermissions,       *)
(* execute, the hooks) settles with an outcome chosen when it completes.   *)
(*                                                                         *)
(* ConcurrentSpec: two service classes with a schema each, one possibly    *)
(* extending the other, and several invocations in flight at once, their   *)
(* steps interleaved at the awaits of run.                                 *)
(*                                                                         *)
(* ValidationSpec: validate and validateWithRules called directly.         *)
(* ErrorSpec: the ServiceError constructor and toObject.                   *)
(* LegacySpec: the v1 API (src/src/ServiceBase.js, src/src/Exception.js):  *)
(* run, runService, makeServiceRunner and renderPromiseAsJson.             *)
(***************************************************************************)
EXTENDS Integers, Sequences, FiniteSets, TLC

\* Deepest chain of aroundExecute overrides of the class drawn in Init.
MaxLayers == 2

\* Invocations of run that ConcurrentSpec makes, in flight at once or one
\* after the other.
MaxInvocations == 2

-----------------------------------------------------------------------------
(* JavaScript values.  An object is the set of its <<key, value>> pairs.   *)

Val(kind, pairs) == [k |-> kind, o |-> pairs]
Undefined == Val("undefined", {})
Null == Val("null", {})
Obj(pairs) == Val("obj", pairs)
Str(s) == Val("string", {<<"value", s>>})
True == Val("true", {})
False == Val("false", {})
DateNow == Val("date", {})
Millis == Val("number", {})

IsObject(v) == v.k = "obj"
Truthy(v) == v.k \notin {"undefined", "null", "false"}
Keys(v) == {p[1] : p \in v.o}

\* The arguments of run() that are explored.
RawInputs ==
  { Undefined, Null, Str("raw"), Obj({}), Obj({<<"name", "a">>}),
    Obj({<<"name", "a">>, <<"extra", "1">>}) }

\* The rule sets used: static validation and the rules given to validateWithRules.
StaticRules == Obj({<<"name", "required">>})
DynamicRules == Obj({<<"extra", "required">>})

-----------------------------------------------------------------------------
(* Errors and the outcome of a call.                                       *)

Err(type, code, fields, layer) ==
  [type |-> type, code |-> code, fields |-> fields, layer |-> layer]
NoError == Err("none", "", Undefined, 0)
PlainError(msg) == Err("Error", msg, Undefined, 0)

Ret(v) == [ok |-> TRUE, val |-> v, err |-> NoError]
Throw(e) == [ok |-> FALSE, val |-> Undefined, err |-> e]

\* new ServiceError({ fields, code }): the checks of the constructor.
\* threw tells whether the constructor threw; e is the error that comes out:
\* the ServiceError built, or the Error of a failed check.
ServiceErrorNew(fields, code) ==
  IF ~IsObject(fields)
  THEN [threw |-> TRUE, e |-> PlainError("'fields' must be a non-null object")]
  ELSE IF code = ""
  THEN [threw |-> TRUE, e |-> PlainError("'code' must be a non-empty string")]
  ELSE [threw |-> FALSE, e |-> Err("ServiceError", code, fields, 0)]

\* The default of the constructor's code parameter.
DefaultCode == "VALIDATION_ERROR"

\* What user code raises.
DenialError == Err("ServiceError", "PERMISSION_DENIED", Obj({}), 0)
BusinessError == PlainError("boom")
LayerError(k) == Err("Error", "layer raised", Undefined, k)
OnSuccessHookError == PlainError("onSuccess raised")
OnErrorHookError == PlainError("onError raised")

\* What user code returns.
Result(data) == Val("result", data.o)
\* What a transforming layer hands down in place of the data it was given.
Transformed(data) == Val(data.k, data.o \cup {<<"doubled", "yes">>})
Cached == Val("cached", {})
Fallback == Val("fallback", {})

-----------------------------------------------------------------------------
(* The LIVR validator, as far as the interface LIVRValidator fixes it:      *)
(* validate(data) gives the clean data (the declared fields only) or false, *)
(* and getErrors() the field errors of the last validate, or null.          *)

NewValidator(rules) == [built |-> TRUE, rules |-> rules, errors |-> Null]
NoValidator == [built |-> FALSE, rules |-> Undefined, errors |-> Null]

LIVRErrors(rules, data) ==
  IF ~IsObject(data) THEN Null
  ELSE Obj({<<f, "REQUIRED">> : f \in Keys(rules) \ Keys(data)})

LIVRFails(rules, data) ==
  \/ ~IsObject(data)
  \/ Keys(rules) \ Keys(data) # {}

LIVRClean(rules, data) == Obj({p \in data.o : p[1] \in Keys(rules)})

\* validator.validate(data): the returned value and the validator afterwards.
LIVRValidate(validator, data) ==
  IF LIVRFails(validator.rules, data)
  THEN [val |-> False,
        validator |-> [validator EXCEPT !.errors = LIVRErrors(validator.rules, data)]]
  ELSE [val |-> LIVRClean(validator.rules, data),
        validator |-> [validator EXCEPT !.errors = Null]]

GetErrors(validator) == validator.errors

-----------------------------------------------------------------------------
(* ServiceBase's validation methods.  Each gives the outcome of the call    *)
(* and the validator it used, as the call leaves it.                        *)

\* Mutant: the ServiceError is thrown without the validator's errors.
doValidationWithValidator_NoErrors(data, validator) ==
  LET r == LIVRValidate(validator, data)
  IN [out |-> IF Truthy(r.val) THEN Ret(r.val)
              ELSE Throw(ServiceErrorNew(Obj({}), DefaultCode).e),
      validator |-> r.validator]

\* #doValidationWithValidator(data, validator)
doValidationWithValidator(data, validator) ==
  LET r == LIVRValidate(validator, data)
      errors == GetErrors(r.validator)
      fields == IF errors.k \in {"null", "undefined"} THEN Obj({}) ELSE errors
  IN [out |-> IF Truthy(r.val) THEN Ret(r.val)
              ELSE Throw(ServiceErrorNew(fields, DefaultCode).e),
      validator |-> r.validator]

\* validateWithRules(data, rules): a new validator each call.
validateWithRules(data, rules) ==
  IF ~Truthy(rules) \/ ~IsObject(rules)
  THEN Throw(PlainError("validateWithRules: rules must be a non-null object"))
  ELSE doValidationWithValidator(data, NewValidator(rules)).out

\* Mutant: without a schema the input is returned as it came.
validate_NoDefault(class, cache, data) ==
  LET validation == class.validation IN
  IF validation.k # "undefined" /\ ~IsObject(validation)
  THEN [out |-> Throw(PlainError("validation must be a non-null object")),
        cache |-> cache]
  ELSE IF ~Truthy(validation)
  THEN [out |-> Ret(data), cache |-> cache]
  ELSE LET validator == IF ~cache.built THEN NewValidator(validation) ELSE cache
           r == doValidationWithValidator(data, validator)
       IN [out |-> r.out, cache |-> r.validator]

\* Mutant: the falsy test is made first, so a null validation counts as none.
validate_NullAsNone(class, cache, data) ==
  LET validation == class.validation IN
  IF ~Truthy(validation)
  THEN [out |-> Ret(IF data.k \in {"null", "undefined"} THEN Obj({}) ELSE data),
        cache |-> cache]
  ELSE IF ~IsObject(validation)
  THEN [out |-> Throw(PlainError("validation must be a non-null object")),
        cache |-> cache]
  ELSE LET validator == IF ~cache.built THEN NewValidator(validation) ELSE cache
           r == doValidationWithValidator(data, validator)
       IN [out |-> r.out, cache |-> r.validator]

\* Mutant: the cached validator is rebuilt when validation is no longer the
\* rule object it was compiled from.
validate_Rebuilds(class, cache, data) ==
  LET validation == class.validation IN
  IF validation.k # "undefined" /\ ~IsObject(validation)
  THEN [out |-> Throw(PlainError("validation must be a non-null object")),
        cache |-> cache]
  ELSE IF ~Truthy(validation)
  THEN [out |-> Ret(IF data.k \in {"null", "undefined"} THEN Obj({}) ELSE data),
        cache |-> cache]
  ELSE LET validator == IF ~cache.built \/ cache.rules # validation
                        THEN NewValidator(validation) ELSE cache
           r == doValidationWithValidator(data, validator)
       IN [out |-> r.out, cache |-> r.validator]

\* validate(data) of ServiceBase; cache is ctor.__validator.
validate(class, cache, data) ==
  LET validation == class.validation IN
  IF validation.k # "undefined" /\ ~IsObject(validation)
  THEN [out |-> Throw(PlainError("validation must be a non-null object")),
        cache |-> cache]
  ELSE IF ~Truthy(validation)
  THEN [out |-> Ret(IF data.k \in {"null", "undefined"} THEN Obj({}) ELSE data),
        cache |-> cache]
  ELSE LET validator == IF ~cache.built THEN NewValidator(validation) ELSE cache
           r == doValidationWithValidator(data, validator)
       IN [out |-> r.out, cache |-> r.validator]

\* this.validate(data) as dispatched: a class may override validate to call
\* validateWithRules with its own rules.
CallValidate(class, cache, data) ==
  IF class.overridesValidate
  THEN [out |-> validateWithRules(data, class.rules), cache |-> cache]
  ELSE validate(class, cache, data)

-----------------------------------------------------------------------------
(* Service classes.  layers[k] is the aroundExecute override of the k-th    *)
(* inheritance layer above ServiceBase: layers[1] extends ServiceBase       *)
(* directly, the last one is the most derived.                              *)
(*   std    before marker, await super.aroundExecute, after marker          *)
(*   direct before marker, await proceed(data), after marker                *)
(*   raise  raises instead of calling proceed                               *)
(*   skip   returns a value of its own without calling proceed              *)
(*   catch  as std, but replaces an error of the inner chain by a value     *)
(*   retry  as std, but awaits super.aroundExecute once more after an error *)
(*   tx     db.withTransaction(() => super.aroundExecute(data, proceed)):    *)
(*          BEGIN, then COMMIT or ROLLBACK as the inner chain ends           *)
(*   transform  awaits super.aroundExecute with data of its own making      *)

LayerKinds == {"std", "direct", "raise", "skip", "catch", "retry", "tx", "transform"}

LayerSeqs == UNION {[1..n -> LayerKinds] : n \in 0..MaxLayers}

Classes ==
  { c \in [validation : {Undefined, StaticRules, Str("not an object"), Null},
           overridesValidate : BOOLEAN,
           rules : {Undefined, DynamicRules, Null},
           hasExecute : BOOLEAN,
           hasCheckPermissions : BOOLEAN,
           layers : LayerSeqs] :
      /\ c.overridesValidate => c.validation = Undefined /\ c.rules # Undefined
      /\ ~c.overridesValidate => c.rules = Undefined }

\* The simple example.  Its Base class (examples/simple/Base.ts) declares
\* doRun, wrapping execute in db.withTransaction, and onSuccess; the Base of
\* the README declares aroundExecute with the same wrapping.
ExampleBaseMethods == {"doRun", "onSuccess"}
ReadmeBaseMethods == {"aroundExecute", "onSuccess"}

\* The chain of aroundExecute overrides of a concrete service whose base
\* class declares these methods: run calls this.aroundExecute and nothing
\* else of them, so the wrapping is in the chain only when it is declared
\* under that name.
LayersOf(methods) == IF "aroundExecute" \in methods THEN <<"tx">> ELSE <<>>

\* UsersCreate extends Base: a schema, checkPermissions and execute.
UsersCreate(methods) ==
  [validation |-> StaticRules, overridesValidate |-> FALSE, rules |-> Undefined,
   hasExecute |-> TRUE, hasCheckPermissions |-> TRUE, layers |-> LayersOf(methods)]

-----------------------------------------------------------------------------
(* State.                                                                   *)

VARIABLES
  cls,        \* the service class
  validator,  \* the class's static __validator
  pc,         \* where the invocation in flight stands
  context,    \* its RunContext
  awaited,    \* the outcome of the call run() is awaiting
  cur,        \* the inheritance layer whose aroundExecute is entered next
  data,       \* the data handed down the chain
  stack,      \* the layers suspended in their await, outermost first, each
              \* with whether it has awaited its inner chain a second time
  result,     \* run's local result
  caught,     \* the error bound by run's catch
  settled,    \* how run's promise settled
  trace,      \* history: every call, return and raise of a phase
  calls       \* history: the markers pushed by the layers and execute

vars == <<cls, validator, pc, context, awaited, cur, data, stack, result,
          caught, settled, trace, calls>>

\* The state of ConcurrentSpec.
VARIABLES
  childExtends,  \* whether class Child extends class Parent (or ServiceBase)
  heap,          \* the validators constructed so far, in order of construction
  slots,         \* per class, its own __validator property: a validator of heap, 0 if none
  inv            \* per invocation of run: where it stands and its local variables

cvars == <<childExtends, heap, slots, inv>>

NoContext ==
  [inputData |-> Undefined, cleanData |-> Undefined, startTime |-> Undefined,
   endTime |-> Undefined, executionTimeMs |-> Undefined]

\* Mutant: the context is created with the raw input as its clean data.
NewContext_Prefilled(inputData) ==
  [inputData |-> inputData, cleanData |-> inputData, startTime |-> DateNow,
   endTime |-> Null, executionTimeMs |-> Null]

NewContext(inputData) ==
  [inputData |-> inputData, cleanData |-> Null, startTime |-> DateNow,
   endTime |-> Null, executionTimeMs |-> Null]

Pending == [state |-> "pending", val |-> Undefined, err |-> NoError]
Resolved(v) == [state |-> "resolved", val |-> v, err |-> NoError]
Rejected(e) == [state |-> "rejected", val |-> Undefined, err |-> e]

Ev(who, ev, layer, val, err, ctx) ==
  [who |-> who, ev |-> ev, layer |-> layer, val |-> val, err |-> err, ctx |-> ctx]

Marker(m, layer) == [m |-> m, layer |-> layer]

\* The two classes of ConcurrentSpec and its invocations.
ClassNames == {"Parent", "Child"}
Invocations == 1..MaxInvocations

\* An invocation that has not been made yet.
NotStarted ==
  [pc |-> "new", class |-> "", inputData |-> Undefined, context |-> NoContext,
   used |-> 0, awaited |-> Ret(Undefined), result |-> Undefined,
   caught |-> NoError, settled |-> Pending,
   hook |-> [name |-> "", arg |-> Undefined, err |-> NoError, ctx |-> NoContext]]

\* Spec leaves the state of ConcurrentSpec as it is before any invocation.
NoInvocations ==
  /\ childExtends = FALSE
  /\ heap = <<>>
  /\ slots = [c \in ClassNames |-> 0]
  /\ inv = [i \in Invocations |-> NotStarted]

Init ==
  /\ NoInvocations
  /\ cls \in Classes
  /\ validator = NoValidator
  /\ pc = "idle"
  /\ context = NoContext
  /\ awaited = Ret(Undefined)
  /\ cur = 0
  /\ data = Undefined
  /\ stack = <<>>
  /\ result = Undefined
  /\ caught = NoError
  /\ settled = Pending
  /\ trace = <<>>
  /\ calls = <<>>

-----------------------------------------------------------------------------
(* run(inputData), one action per stretch between two suspension points.    *)

\* Mutant: the catch block hands on a new error wrapping the one it caught.
CatchBlock_Wrapped(error, ctx, tr) ==
  /\ caught' = PlainError("wrapped")
  /\ context' = ctx
  /\ trace' = Append(tr, Ev("onError", "call", 0, Undefined, PlainError("wrapped"), ctx))
  /\ pc' = "onError"

\* catch (error) { await this.onError(error, context); ... }: onError is called.
CatchBlock(error, ctx, tr) ==
  /\ caught' = error
  /\ context' = ctx
  /\ trace' = Append(tr, Ev("onError", "call", 0, Undefined, error, ctx))
  /\ pc' = "onError"

\* Mutant: no runtime check is made.
RuntimeCheck_None(class) == Ret(Undefined)

\* Mutant: checkPermissions is checked before execute.
RuntimeCheck_PermissionsFirst(class) ==
  IF ~class.hasCheckPermissions
  THEN Throw(PlainError("checkPermissions() must be implemented"))
  ELSE IF ~class.hasExecute THEN Throw(PlainError("execute() must be implemented"))
  ELSE Ret(Undefined)

\* run's runtime checks of execute and checkPermissions, made before the try.
RuntimeCheck(class) ==
  IF ~class.hasExecute THEN Throw(PlainError("execute() must be implemented"))
  ELSE IF ~class.hasCheckPermissions
  THEN Throw(PlainError("checkPermissions() must be implemented"))
  ELSE Ret(Undefined)

\* run(inputData) up to its first await: the runtime checks, the context, and
\* the call of validate, whose body runs to its end without suspending.
Run(inputData) ==
  /\ pc \in {"idle", "settled"}
  /\ UNCHANGED cvars
  /\ cur' = 0 /\ data' = Undefined /\ stack' = <<>> /\ result' = Undefined
  /\ caught' = NoError /\ calls' = <<>>
  /\ UNCHANGED cls
  /\ IF ~RuntimeCheck(cls).ok
     THEN /\ settled' = Rejected(RuntimeCheck(cls).err)
          /\ pc' = "settled"
          /\ context' = NoContext
          /\ trace' = <<>>
          /\ awaited' = Ret(Undefined)
          /\ UNCHANGED validator
     ELSE LET ctx == NewContext(inputData)
              v == CallValidate(cls, validator, inputData)
          IN /\ settled' = Pending
             /\ context' = ctx
             /\ trace' = << Ev("validate", "call", 0, inputData, NoError, ctx),
                            IF v.out.ok
                            THEN Ev("validate", "return", 0, v.out.val, NoError, ctx)
                            ELSE Ev("validate", "raise", 0, Undefined, v.out.err, ctx) >>
             /\ awaited' = v.out
             /\ validator' = v.cache
             /\ pc' = "validate"

\* Mutant: checkPermissions is called whether or not validate raised.
AfterValidate_Unchecked ==
  /\ pc = "validate"
  /\ UNCHANGED cvars
  /\ UNCHANGED <<cls, validator, awaited, cur, data, stack, result, settled, calls, caught>>
  /\ context' = [context EXCEPT !.cleanData = awaited.val]
  /\ trace' = Append(trace, Ev("checkPermissions", "call", 0, awaited.val, NoError, context'))
  /\ pc' = "checkPermissions"

\* Mutant: checkPermissions is called with the raw input.
AfterValidate_RawInput ==
  /\ pc = "validate"
  /\ UNCHANGED cvars
  /\ UNCHANGED <<cls, validator, awaited, cur, data, stack, result, settled, calls>>
  /\ IF awaited.ok
     THEN LET ctx == [context EXCEPT !.cleanData = awaited.val]
          IN /\ context' = ctx
             /\ trace' = Append(trace, Ev("checkPermissions", "call", 0, context.inputData, NoError, ctx))
             /\ pc' = "checkPermissions"
             /\ UNCHANGED caught
     ELSE CatchBlock(awaited.err, context, trace)

\* Mutant: the clean data is handed on but never stored in the context.
AfterValidate_NoStore ==
  /\ pc = "validate"
  /\ UNCHANGED cvars
  /\ UNCHANGED <<cls, validator, awaited, cur, data, stack, result, settled, calls>>
  /\ IF awaited.ok
     THEN /\ context' = context
          /\ trace' = Append(trace, Ev("checkPermissions", "call", 0, awaited.val, NoError, context))
          /\ pc' = "checkPermissions"
          /\ UNCHANGED caught
     ELSE CatchBlock(awaited.err, context, trace)

\* The await of validate is over: cleanData is stored and checkPermissions is
\* called; or validate raised and the catch block runs.
AfterValidate ==
  /\ pc = "validate"
  /\ UNCHANGED cvars
  /\ UNCHANGED <<cls, validator, awaited, cur, data, stack, result, settled, calls>>
  /\ IF awaited.ok
     THEN LET ctx == [context EXCEPT !.cleanData = awaited.val]
          IN /\ context' = ctx
             /\ trace' = Append(trace, Ev("checkPermissions", "call", 0, awaited.val, NoError, ctx))
             /\ pc' = "checkPermissions"
             /\ UNCHANGED caught
     ELSE CatchBlock(awaited.err, context, trace)

\* checkPermissions returns b: aroundExecute of the most derived layer is
\* called next with cleanData and the proceed closure.
EnterChain(b) ==
  /\ UNCHANGED <<cls, validator, awaited, stack, result, settled, calls, context, caught>>
  /\ cur' = Len(cls.layers)
  /\ data' = context.cleanData
  /\ trace' = Append(trace, Ev("checkPermissions", "return", 0, b, NoError, context))
  /\ pc' = "aroundExecute"

\* Mutant: a false return is taken as a denial.
CheckPermissionsReturns_FalseDenies(b) ==
  /\ pc = "checkPermissions"
  /\ UNCHANGED cvars
  /\ IF b = False
     THEN /\ UNCHANGED <<cls, validator, awaited, cur, data, stack, result, settled, calls>>
          /\ CatchBlock(DenialError, context,
                        Append(trace, Ev("checkPermissions", "return", 0, b, NoError, context)))
     ELSE EnterChain(b)

\* await this.checkPermissions(cleanData): the value returned is not looked at.
CheckPermissionsReturns(b) ==
  /\ pc = "checkPermissions"
  /\ UNCHANGED cvars
  /\ EnterChain(b)

\* checkPermissions raises a denial.
CheckPermissionsRaises ==
  /\ pc = "checkPermissions"
  /\ UNCHANGED cvars
  /\ UNCHANGED <<cls, validator, awaited, cur, data, stack, result, settled, calls>>
  /\ CatchBlock(DenialError, context,
                Append(trace, Ev("checkPermissions", "raise", 0, Undefined, DenialError, context)))

\* The kind of the aroundExecute that is entered next.
CurKind == IF cur = 0 THEN "base" ELSE cls.layers[cur]

\* A suspended override: its layer, the data it was called with, and whether
\* it has awaited its inner chain a second time.
Frame(layer) == [layer |-> layer, retried |-> FALSE, data |-> data]
Top == stack[Len(stack)]
Pop(st) == SubSeq(st, 1, Len(st) - 1)

\* Mutant: proceed ignores its argument and gives execute the clean data.
Proceed_CleanData(d, tr) ==
  /\ trace' = Append(tr, Ev("execute", "call", 0, context.cleanData, NoError, context))
  /\ calls' = Append(calls, Marker("execute", 0))
  /\ pc' = "execute"

\* proceed = (data) => this.execute(data): execute is called.
Proceed(d, tr) ==
  /\ trace' = Append(tr, Ev("execute", "call", 0, d, NoError, context))
  /\ calls' = Append(calls, Marker("execute", 0))
  /\ pc' = "execute"

\* Mutant: the default aroundExecute returns without calling proceed.
BaseAroundExecute_NoProceed ==
  /\ pc = "aroundExecute" /\ CurKind = "base"
  /\ UNCHANGED cvars
  /\ UNCHANGED <<cls, validator, context, cur, data, stack, result, caught, settled, calls>>
  /\ trace' = Append(trace, Ev("aroundExecute", "call", 0, data, NoError, context))
  /\ awaited' = Ret(Undefined)
  /\ pc' = "unwind"

\* Mutant: proceed calls execute the first time only; called again, it
\* returns without calling it.
BaseAroundExecute_ProceedsOnce ==
  /\ pc = "aroundExecute" /\ CurKind = "base"
  /\ UNCHANGED cvars
  /\ UNCHANGED <<cls, validator, context, cur, data, stack, result, caught, settled>>
  /\ IF \E i \in DOMAIN trace : trace[i].who = "execute"
     THEN /\ trace' = Append(trace, Ev("aroundExecute", "call", 0, data, NoError, context))
          /\ awaited' = Ret(Undefined)
          /\ pc' = "unwind"
          /\ UNCHANGED calls
     ELSE /\ Proceed(data, Append(trace, Ev("aroundExecute", "call", 0, data, NoError, context)))
          /\ UNCHANGED awaited

\* ServiceBase.aroundExecute: return proceed(cleanData).
BaseAroundExecute ==
  /\ pc = "aroundExecute" /\ CurKind = "base"
  /\ UNCHANGED cvars
  /\ UNCHANGED <<cls, validator, context, awaited, cur, data, stack, result, caught, settled>>
  /\ Proceed(data, Append(trace, Ev("aroundExecute", "call", 0, data, NoError, context)))

\* An override that pushes its before marker and awaits super.aroundExecute.
LayerCallsSuper ==
  /\ pc = "aroundExecute" /\ CurKind \in {"std", "catch", "retry"}
  /\ UNCHANGED cvars
  /\ UNCHANGED <<cls, validator, context, awaited, data, result, caught, settled, pc>>
  /\ trace' = Append(trace, Ev("aroundExecute", "call", cur, data, NoError, context))
  /\ calls' = Append(calls, Marker("before", cur))
  /\ stack' = Append(stack, Frame(cur))
  /\ cur' = cur - 1

\* An override that awaits super.aroundExecute with data of its own making.
LayerTransforms ==
  /\ pc = "aroundExecute" /\ CurKind = "transform"
  /\ UNCHANGED cvars
  /\ UNCHANGED <<cls, validator, context, awaited, result, caught, settled, pc, calls>>
  /\ trace' = Append(trace, Ev("aroundExecute", "call", cur, data, NoError, context))
  /\ stack' = Append(stack, Frame(cur))
  /\ data' = Transformed(data)
  /\ cur' = cur - 1

\* An event of the example database: BEGIN, COMMIT or ROLLBACK.
Db(what, layer) == Ev("withTransaction", what, layer, Undefined, NoError, context)

\* An override that runs super.aroundExecute inside db.withTransaction: the
\* transaction begins and fn is awaited.
LayerBegins ==
  /\ pc = "aroundExecute" /\ CurKind = "tx"
  /\ UNCHANGED cvars
  /\ UNCHANGED <<cls, validator, context, awaited, data, result, caught, settled, pc, calls>>
  /\ trace' = trace \o << Ev("aroundExecute", "call", cur, data, NoError, context),
                          Db("BEGIN", cur) >>
  /\ stack' = Append(stack, Frame(cur))
  /\ cur' = cur - 1

\* An override that pushes its before marker and awaits proceed(data) itself.
LayerCallsProceed ==
  /\ pc = "aroundExecute" /\ CurKind = "direct"
  /\ UNCHANGED cvars
  /\ UNCHANGED <<cls, validator, context, awaited, cur, data, result, caught, settled>>
  /\ stack' = Append(stack, Frame(cur))
  /\ trace' = trace \o << Ev("aroundExecute", "call", cur, data, NoError, context),
                          Ev("execute", "call", 0, data, NoError, context) >>
  /\ calls' = calls \o << Marker("before", cur), Marker("execute", 0) >>
  /\ pc' = "execute"

\* An override that raises instead of calling proceed.
LayerRaises ==
  /\ pc = "aroundExecute" /\ CurKind = "raise"
  /\ UNCHANGED cvars
  /\ UNCHANGED <<cls, validator, context, cur, data, stack, result, caught, settled, calls>>
  /\ trace' = trace \o << Ev("aroundExecute", "call", cur, data, NoError, context),
                          Ev("aroundExecute", "raise", cur, Undefined, LayerError(cur), context) >>
  /\ awaited' = Throw(LayerError(cur))
  /\ pc' = "unwind"

\* What an override that does not call proceed may return: nothing, or a
\* value of its own.
SkipValues == {Undefined, Cached}

\* An override that returns without calling proceed.
LayerSkips(v) ==
  /\ pc = "aroundExecute" /\ CurKind = "skip"
  /\ UNCHANGED cvars
  /\ UNCHANGED <<cls, validator, context, cur, data, stack, result, caught, settled, calls>>
  /\ trace' = trace \o << Ev("aroundExecute", "call", cur, data, NoError, context),
                          Ev("aroundExecute", "return", cur, v, NoError, context) >>
  /\ awaited' = Ret(v)
  /\ pc' = "unwind"

\* execute returns its result for the data it was given.
ExecuteReturns ==
  /\ pc = "execute"
  /\ UNCHANGED cvars
  /\ UNCHANGED <<cls, validator, context, cur, data, stack, result, caught, settled, calls>>
  /\ trace' = Append(trace, Ev("execute", "return", 0, Result(data), NoError, context))
  /\ awaited' = Ret(Result(data))
  /\ pc' = "unwind"

\* execute raises.
ExecuteRaises ==
  /\ pc = "execute"
  /\ UNCHANGED cvars
  /\ UNCHANGED <<cls, validator, context, cur, data, stack, result, caught, settled, calls>>
  /\ trace' = Append(trace, Ev("execute", "raise", 0, Undefined, BusinessError, context))
  /\ awaited' = Throw(BusinessError)
  /\ pc' = "unwind"

\* What the innermost suspended override does with the outcome of its await:
\* it pushes its after marker and returns the result, lets an error through,
\* or (catch) returns a value in place of the error.
LayerOutcome(kind, inner) ==
  IF inner.ok THEN inner
  ELSE IF kind = "catch" THEN Ret(Fallback)
  ELSE inner

\* The innermost suspended override is a retry layer whose first await of
\* super.aroundExecute raised.
Retrying ==
  /\ stack # <<>>
  /\ cls.layers[Top.layer] = "retry" /\ ~Top.retried /\ ~awaited.ok

\* It catches the error and awaits super.aroundExecute a second time.
LayerRetries ==
  /\ pc = "unwind" /\ Retrying
  /\ UNCHANGED cvars
  /\ UNCHANGED <<cls, validator, context, awaited, result, caught, settled, calls>>
  /\ trace' = Append(trace, Ev("aroundExecute", "retry", Top.layer, Top.data, awaited.err, context))
  /\ stack' = [stack EXCEPT ![Len(stack)].retried = TRUE]
  /\ data' = Top.data
  /\ cur' = Top.layer - 1
  /\ pc' = "aroundExecute"

\* Mutant: withTransaction commits however fn ended.
LayerResumes_NoRollback ==
  /\ pc = "unwind" /\ stack # <<>> /\ ~Retrying
  /\ UNCHANGED cvars
  /\ UNCHANGED <<cls, validator, context, cur, data, result, caught, settled, pc>>
  /\ LET kind == cls.layers[Top.layer]
         out == LayerOutcome(kind, awaited)
         closing == IF kind = "tx" THEN << Db("COMMIT", Top.layer) >> ELSE <<>>
     IN /\ awaited' = out
        /\ calls' = IF awaited.ok /\ kind \notin {"tx", "transform"}
                    THEN Append(calls, Marker("after", Top.layer)) ELSE calls
        /\ trace' = trace \o closing \o
                      << IF out.ok THEN Ev("aroundExecute", "return", Top.layer, out.val, NoError, context)
                         ELSE Ev("aroundExecute", "raise", Top.layer, Undefined, out.err, context) >>
  /\ stack' = Pop(stack)

\* The innermost suspended override resumes: withTransaction commits or rolls
\* back, the other overrides push their after marker when the inner chain
\* returned; then the override returns or raises.
LayerResumes ==
  /\ pc = "unwind" /\ stack # <<>> /\ ~Retrying
  /\ UNCHANGED cvars
  /\ UNCHANGED <<cls, validator, context, cur, data, result, caught, settled, pc>>
  /\ LET kind == cls.layers[Top.layer]
         out == LayerOutcome(kind, awaited)
         closing == IF kind # "tx" THEN <<>>
                    ELSE IF awaited.ok THEN << Db("COMMIT", Top.layer) >>
                    ELSE << Db("ROLLBACK", Top.layer) >>
     IN /\ awaited' = out
        /\ calls' = IF awaited.ok /\ kind \notin {"tx", "transform"}
                    THEN Append(calls, Marker("after", Top.layer)) ELSE calls
        /\ trace' = trace \o closing \o
                      << IF out.ok THEN Ev("aroundExecute", "return", Top.layer, out.val, NoError, context)
                         ELSE Ev("aroundExecute", "raise", Top.layer, Undefined, out.err, context) >>
  /\ stack' = Pop(stack)

\* Mutant: endTime and executionTimeMs are stamped whether the chain
\* returned or raised, as a finally block would.
ChainSettles_StampedAlways ==
  /\ pc = "unwind" /\ stack = <<>>
  /\ UNCHANGED cvars
  /\ UNCHANGED <<cls, validator, awaited, cur, data, stack, settled, calls>>
  /\ LET ctx == [context EXCEPT !.endTime = DateNow, !.executionTimeMs = Millis]
     IN IF awaited.ok
        THEN /\ result' = awaited.val
             /\ context' = ctx
             /\ trace' = Append(trace, Ev("onSuccess", "call", 0, awaited.val, NoError, ctx))
             /\ pc' = "onSuccess"
             /\ UNCHANGED caught
        ELSE /\ CatchBlock(awaited.err, ctx, trace)
             /\ UNCHANGED result

\* Mutant: when the chain raises, run calls aroundExecute a second time
\* before it gives up.
ChainSettles_RetriesOnce ==
  /\ pc = "unwind" /\ stack = <<>>
  /\ UNCHANGED cvars
  /\ UNCHANGED <<cls, validator, awaited, stack, settled, calls>>
  /\ IF awaited.ok
     THEN LET ctx == [context EXCEPT !.endTime = DateNow, !.executionTimeMs = Millis]
          IN /\ result' = awaited.val
             /\ context' = ctx
             /\ trace' = Append(trace, Ev("onSuccess", "call", 0, awaited.val, NoError, ctx))
             /\ pc' = "onSuccess"
             /\ UNCHANGED <<caught, cur, data>>
     ELSE IF \A i \in DOMAIN trace : trace[i].who # "run"
     THEN /\ trace' = Append(trace, Ev("run", "retry", 0, Undefined, awaited.err, context))
          /\ cur' = Len(cls.layers)
          /\ data' = context.cleanData
          /\ pc' = "aroundExecute"
          /\ UNCHANGED <<context, result, caught>>
     ELSE /\ CatchBlock(awaited.err, context, trace)
          /\ UNCHANGED <<result, cur, data>>

\* Mutant: endTime is stamped, executionTimeMs is left as it was.
ChainSettles_NoDuration ==
  /\ pc = "unwind" /\ stack = <<>>
  /\ UNCHANGED cvars
  /\ UNCHANGED <<cls, validator, awaited, cur, data, stack, settled, calls>>
  /\ IF awaited.ok
     THEN LET ctx == [context EXCEPT !.endTime = DateNow]
          IN /\ result' = awaited.val
             /\ context' = ctx
             /\ trace' = Append(trace, Ev("onSuccess", "call", 0, awaited.val, NoError, ctx))
             /\ pc' = "onSuccess"
             /\ UNCHANGED caught
     ELSE /\ CatchBlock(awaited.err, context, trace)
          /\ UNCHANGED result

\* The await of aroundExecute is over: endTime and executionTimeMs are stamped
\* and onSuccess is called; or the chain raised and the catch block runs.
ChainSettles ==
  /\ pc = "unwind" /\ stack = <<>>
  /\ UNCHANGED cvars
  /\ UNCHANGED <<cls, validator, awaited, cur, data, stack, settled, calls>>
  /\ IF awaited.ok
     THEN LET ctx == [context EXCEPT !.endTime = DateNow, !.executionTimeMs = Millis]
          IN /\ result' = awaited.val
             /\ context' = ctx
             /\ trace' = Append(trace, Ev("onSuccess", "call", 0, awaited.val, NoError, ctx))
             /\ pc' = "onSuccess"
             /\ UNCHANGED caught
     ELSE /\ CatchBlock(awaited.err, context, trace)
          /\ UNCHANGED result

\* Mutant: run resolves without returning the result.
ReturnResult_Nothing(r) == Resolved(Undefined)

\* return result
ReturnResult(r) == Resolved(r)

\* Mutant: the catch block ends without throwing.
Rethrow_Swallowed(error) == Resolved(Undefined)

\* throw error, at the end of the catch block
Rethrow(error) == Rejected(error)

\* What an onSuccess override may return: nothing, or a value of its own.
HookValues == {Undefined, Str("from hook")}

\* Mutant: run returns what onSuccess returned.
OnSuccessReturns_HookValue(v) ==
  /\ pc = "onSuccess"
  /\ UNCHANGED cvars
  /\ UNCHANGED <<cls, validator, context, awaited, cur, data, stack, result, caught, calls>>
  /\ trace' = Append(trace, Ev("onSuccess", "return", 0, v, NoError, context))
  /\ settled' = ReturnResult(v)
  /\ pc' = "settled"

\* onSuccess completes, returning v: run returns the result.
OnSuccessReturns(v) ==
  /\ pc = "onSuccess"
  /\ UNCHANGED cvars
  /\ UNCHANGED <<cls, validator, context, awaited, cur, data, stack, result, caught, calls>>
  /\ trace' = Append(trace, Ev("onSuccess", "return", 0, v, NoError, context))
  /\ settled' = ReturnResult(result)
  /\ pc' = "settled"

\* Mutant: onSuccess is awaited outside the try, its error rejects run directly.
OnSuccessRaises_Uncaught ==
  /\ pc = "onSuccess"
  /\ UNCHANGED cvars
  /\ UNCHANGED <<cls, validator, context, awaited, cur, data, stack, result, caught, calls>>
  /\ trace' = Append(trace, Ev("onSuccess", "raise", 0, Undefined, OnSuccessHookError, context))
  /\ settled' = Rejected(OnSuccessHookError)
  /\ pc' = "settled"

\* Mutant: an error of onSuccess is dropped and run returns the result.
OnSuccessRaises_Dropped ==
  /\ pc = "onSuccess"
  /\ UNCHANGED cvars
  /\ UNCHANGED <<cls, validator, context, awaited, cur, data, stack, result, caught, calls>>
  /\ trace' = Append(trace, Ev("onSuccess", "raise", 0, Undefined, OnSuccessHookError, context))
  /\ settled' = ReturnResult(result)
  /\ pc' = "settled"

\* onSuccess raises: inside the try, so the catch block runs.
OnSuccessRaises ==
  /\ pc = "onSuccess"
  /\ UNCHANGED cvars
  /\ UNCHANGED <<cls, validator, awaited, cur, data, stack, result, settled, calls>>
  /\ CatchBlock(OnSuccessHookError, context,
                Append(trace, Ev("onSuccess", "raise", 0, Undefined, OnSuccessHookError, context)))

\* onError completes: the caught error is thrown again.
OnErrorReturns ==
  /\ pc = "onError"
  /\ UNCHANGED cvars
  /\ UNCHANGED <<cls, validator, context, awaited, cur, data, stack, result, caught, calls>>
  /\ trace' = Append(trace, Ev("onError", "return", 0, Undefined, NoError, context))
  /\ settled' = Rethrow(caught)
  /\ pc' = "settled"

\* Mutant: the error of onError is dropped and the caught error is thrown.
OnErrorRaises_OriginalKept ==
  /\ pc = "onError"
  /\ UNCHANGED cvars
  /\ UNCHANGED <<cls, validator, context, awaited, cur, data, stack, result, caught, calls>>
  /\ trace' = Append(trace, Ev("onError", "raise", 0, Undefined, OnErrorHookError, context))
  /\ settled' = Rethrow(caught)
  /\ pc' = "settled"

\* onError raises: its error leaves the catch block in place of the caught one.
OnErrorRaises ==
  /\ pc = "onError"
  /\ UNCHANGED cvars
  /\ UNCHANGED <<cls, validator, context, awaited, cur, data, stack, result, caught, calls>>
  /\ trace' = Append(trace, Ev("onError", "raise", 0, Undefined, OnErrorHookError, context))
  /\ settled' = Rejected(OnErrorHookError)
  /\ pc' = "settled"

Next ==
  \/ \E inputData \in RawInputs : Run(inputData)
  \/ AfterValidate
  \/ \E b \in {True, False} : CheckPermissionsReturns(b)
  \/ CheckPermissionsRaises
  \/ BaseAroundExecute
  \/ LayerCallsSuper
  \/ LayerTransforms
  \/ LayerBegins
  \/ LayerCallsProceed
  \/ LayerRaises
  \/ \E v \in SkipValues : LayerSkips(v)
  \/ ExecuteReturns
  \/ ExecuteRaises
  \/ LayerRetries
  \/ LayerResumes
  \/ ChainSettles
  \/ \E v \in HookValues : OnSuccessReturns(v)
  \/ OnSuccessRaises
  \/ OnErrorReturns
  \/ OnErrorRaises

Spec == Init /\ [][Next]_vars

\* Spec with every pending step eventually taken: each callable that has been
\* called returns or raises, and each await that is over is resumed.
LiveSpec == Init /\ [][Next]_vars /\ WF_vars(Next)

-----------------------------------------------------------------------------
(* ConcurrentSpec.  Classes Parent and Child declare a static validation   *)
(* each and implement checkPermissions and execute; neither overrides      *)
(* validate, aroundExecute or the hooks' outcome (the hooks complete).      *)
(* Parent extends ServiceBase; Child extends Parent or ServiceBase.         *)

ChildRules == Obj({<<"extra", "required">>})

\* static validation of the class
Schema(c) == IF c = "Parent" THEN StaticRules ELSE ChildRules

ClassOf(c) ==
  [validation |-> Schema(c), overridesValidate |-> FALSE, rules |-> Undefined,
   hasExecute |-> TRUE, hasCheckPermissions |-> TRUE, layers |-> <<>>]

\* The constructor a class constructor inherits its static properties from.
Super(c) == IF c = "Child" /\ childExtends THEN "Parent" ELSE "ServiceBase"

\* Mutant: the cached validator is never found.
ReadValidator_None(c) == 0

\* ctor.__validator, read: the class's own property or, when it has none,
\* the property of the class it extends (ServiceBase itself never has one).
ReadValidator(c) ==
  IF slots[c] # 0 THEN slots[c]
  ELSE IF Super(c) \in ClassNames THEN slots[Super(c)]
  ELSE 0

\* Mutant: the errors put in the ServiceError are those the shared validator
\* held before this call, as if they were read at another time than right
\* after validator.validate.
ValidateIn_StaleErrors(c, inputData) ==
  LET ref == ReadValidator(c)
      before == IF ref = 0 THEN NoValidator ELSE heap[ref].validator
      r == validate(ClassOf(c), before, inputData)
      stale == IF before.errors.k \in {"null", "undefined"} THEN Obj({}) ELSE before.errors
      at == IF ref = 0 THEN Len(heap) + 1 ELSE ref
  IN [out |-> IF r.out.ok THEN r.out ELSE Throw(ServiceErrorNew(stale, DefaultCode).e),
      used |-> at,
      heap |-> IF ref = 0 THEN Append(heap, [validator |-> r.cache, class |-> c])
               ELSE [heap EXCEPT ![ref].validator = r.cache],
      slots |-> IF ref = 0 THEN [slots EXCEPT ![c] = at] ELSE slots]

\* Mutant: a validator built now is used but not kept in ctor.__validator.
ValidateIn_NotKept(c, inputData) ==
  LET ref == ReadValidator(c)
      r == validate(ClassOf(c), IF ref = 0 THEN NoValidator ELSE heap[ref].validator,
                    inputData)
      at == IF ref = 0 THEN Len(heap) + 1 ELSE ref
  IN [out |-> r.out,
      used |-> at,
      heap |-> IF ref = 0 THEN Append(heap, [validator |-> r.cache, class |-> c])
               ELSE [heap EXCEPT ![ref].validator = r.cache],
      slots |-> slots]

\* validate(data) of an instance of class c, on the shared state: the
\* validator read through ctor.__validator is used, and mutated in place; a
\* validator built now becomes the own property of c.
ValidateIn(c, inputData) ==
  LET ref == ReadValidator(c)
      r == validate(ClassOf(c), IF ref = 0 THEN NoValidator ELSE heap[ref].validator,
                    inputData)
      at == IF ref = 0 THEN Len(heap) + 1 ELSE ref
  IN [out |-> r.out,
      used |-> at,
      heap |-> IF ref = 0 THEN Append(heap, [validator |-> r.cache, class |-> c])
               ELSE [heap EXCEPT ![ref].validator = r.cache],
      slots |-> IF ref = 0 THEN [slots EXCEPT ![c] = at] ELSE slots]

\* The inputs of the invocations in flight.
ConcInputs ==
  { Obj({}), Obj({<<"name", "a">>}), Obj({<<"name", "b">>, <<"extra", "1">>}) }

Hook(name, arg, err, ctx) == [name |-> name, arg |-> arg, err |-> err, ctx |-> ctx]

\* catch (error) { await this.onError(error, context); ... } of invocation i.
ConcCatchBlock(i, error) ==
  inv' = [inv EXCEPT ![i].caught = error,
                     ![i].hook = Hook("onError", Undefined, error, inv[i].context),
                     ![i].pc = "onError"]

\* run(inputData) on a new instance of class c, up to its first await: the
\* context and the whole body of validate.
ConcRun(i, c, inputData) ==
  /\ inv[i].pc = "new"
  /\ UNCHANGED <<vars, childExtends>>
  /\ LET v == ValidateIn(c, inputData)
     IN /\ heap' = v.heap
        /\ slots' = v.slots
        /\ inv' = [inv EXCEPT ![i] =
                     [NotStarted EXCEPT !.pc = "validate", !.class = c,
                                        !.inputData = inputData,
                                        !.context = NewContext(inputData),
                                        !.used = v.used, !.awaited = v.out]]

\* The await of validate is over in invocation i.
ConcAfterValidate(i) ==
  /\ inv[i].pc = "validate"
  /\ UNCHANGED <<vars, childExtends, heap, slots>>
  /\ IF inv[i].awaited.ok
     THEN inv' = [inv EXCEPT ![i].context.cleanData = inv[i].awaited.val,
                             ![i].pc = "checkPermissions"]
     ELSE ConcCatchBlock(i, inv[i].awaited.err)

\* checkPermissions returns: the default aroundExecute calls execute.
ConcCheckPermissionsReturns(i) ==
  /\ inv[i].pc = "checkPermissions"
  /\ UNCHANGED <<vars, childExtends, heap, slots>>
  /\ inv' = [inv EXCEPT ![i].pc = "execute"]

ConcCheckPermissionsRaises(i) ==
  /\ inv[i].pc = "checkPermissions"
  /\ UNCHANGED <<vars, childExtends, heap, slots>>
  /\ ConcCatchBlock(i, DenialError)

\* Mutant: run keeps its context in a place the invocations share, and the
\* result is computed from the context another invocation left there.
ConcExecuteReturns_SharedContext(i) ==
  /\ inv[i].pc = "execute"
  /\ UNCHANGED <<vars, childExtends, heap, slots>>
  /\ LET other == CHOOSE j \in Invocations : j # i
         r == Result(inv[other].context.cleanData)
         ctx == [inv[i].context EXCEPT !.endTime = DateNow, !.executionTimeMs = Millis]
     IN inv' = [inv EXCEPT ![i].result = r, ![i].context = ctx,
                           ![i].hook = Hook("onSuccess", r, NoError, ctx),
                           ![i].pc = "onSuccess"]

\* execute returns: the context is stamped and onSuccess is called.
ConcExecuteReturns(i) ==
  /\ inv[i].pc = "execute"
  /\ UNCHANGED <<vars, childExtends, heap, slots>>
  /\ LET r == Result(inv[i].context.cleanData)
         ctx == [inv[i].context EXCEPT !.endTime = DateNow, !.executionTimeMs = Millis]
     IN inv' = [inv EXCEPT ![i].result = r, ![i].context = ctx,
                           ![i].hook = Hook("onSuccess", r, NoError, ctx),
                           ![i].pc = "onSuccess"]

ConcExecuteRaises(i) ==
  /\ inv[i].pc = "execute"
  /\ UNCHANGED <<vars, childExtends, heap, slots>>
  /\ ConcCatchBlock(i, BusinessError)

\* onSuccess completes: run returns the result.
ConcOnSuccessReturns(i) ==
  /\ inv[i].pc = "onSuccess"
  /\ UNCHANGED <<vars, childExtends, heap, slots>>
  /\ inv' = [inv EXCEPT ![i].settled = ReturnResult(inv[i].result), ![i].pc = "settled"]

\* onError completes: the caught error is thrown again.
ConcOnErrorReturns(i) ==
  /\ inv[i].pc = "onError"
  /\ UNCHANGED <<vars, childExtends, heap, slots>>
  /\ inv' = [inv EXCEPT ![i].settled = Rethrow(inv[i].caught), ![i].pc = "settled"]

\* Spec's variables stay as they are before any run.
ConcInit ==
  /\ childExtends \in BOOLEAN
  /\ heap = <<>>
  /\ slots = [c \in ClassNames |-> 0]
  /\ inv = [i \in Invocations |-> NotStarted]
  /\ cls = ClassOf("Parent")
  /\ validator = NoValidator
  /\ pc = "idle"
  /\ context = NoContext
  /\ awaited = Ret(Undefined)
  /\ cur = 0
  /\ data = Undefined
  /\ stack = <<>>
  /\ result = Undefined
  /\ caught = NoError
  /\ settled = Pending
  /\ trace = <<>>
  /\ calls = <<>>

\* The steps by which invocation i goes on after run's first await.
ConcStep(i) ==
  \/ ConcAfterValidate(i)
  \/ ConcCheckPermissionsReturns(i)
  \/ ConcCheckPermissionsRaises(i)
  \/ ConcExecuteReturns(i)
  \/ ConcExecuteRaises(i)
  \/ ConcOnSuccessReturns(i)
  \/ ConcOnErrorReturns(i)

ConcNext ==
  \E i \in Invocations :
     \/ \E c \in ClassNames, inputData \in ConcInputs : ConcRun(i, c, inputData)
     \/ ConcStep(i)

ConcurrentSpec == ConcInit /\ [][ConcNext]_<<vars, cvars>>

-----------------------------------------------------------------------------
(* Reading the history of the invocation in flight.                         *)

Events(who, ev) == {i \in DOMAIN trace : trace[i].who = who /\ trace[i].ev = ev}
Called(who) == Events(who, "call") # {}
NCalls(who) == Cardinality(Events(who, "call"))
IsSettled == pc = "settled"

\* The phases of run in their order; onError is no phase of the sequence.
PhaseRank(who) ==
  CASE who = "validate" -> 1
    [] who = "checkPermissions" -> 2
    [] who \in {"aroundExecute", "execute"} -> 3
    [] who = "onSuccess" -> 4
    [] OTHER -> 0

PhaseCalls == {i \in DOMAIN trace : trace[i].ev = "call" /\ trace[i].who # "onError"}

\* The errors handed to onError, in order.
OnErrorArgs ==
  [n \in 1..NCalls("onError") |->
     trace[CHOOSE i \in Events("onError", "call") :
             Cardinality({j \in Events("onError", "call") : j <= i}) = n]]

OnErrorReturned == Events("onError", "return") # {}
OnErrorRaised == Events("onError", "raise") # {}
OnSuccessReturned == Events("onSuccess", "return") # {}
OnSuccessRaised == Events("onSuccess", "raise") # {}

-----------------------------------------------------------------------------
\* C1: in every invocation the phases start in the order validate,
\* checkPermissions, aroundExecute/execute, onSuccess; validate,
\* checkPermissions and onSuccess start at most once; checkPermissions is
\* called only after validate has returned, the execution chain only after
\* checkPermissions has returned, and no phase starts after a later one has.
C1_PhaseOrder ==
  /\ \A i, j \in PhaseCalls :
       i < j => PhaseRank(trace[i].who) <= PhaseRank(trace[j].who)
  /\ NCalls("validate") <= 1
  /\ NCalls("checkPermissions") <= 1
  /\ NCalls("onSuccess") <= 1
  /\ \A i \in Events("checkPermissions", "call") :
       /\ \E j \in Events("validate", "return") : j < i
       /\ Events("validate", "raise") = {}
  /\ \A i \in Events("aroundExecute", "call") \cup Events("execute", "call") :
       /\ \E j \in Events("checkPermissions", "return") : j < i
       /\ Events("checkPermissions", "raise") = {}
  /\ \A i \in Events("onSuccess", "call") :
       \E j \in Events("checkPermissions", "return") : j < i

\* All four phases have started, execute included.
C1_Witness ==
  /\ Called("validate") /\ Called("checkPermissions")
  /\ Called("execute") /\ Called("onSuccess")

-----------------------------------------------------------------------------
\* The class validates with its static schema and the input of the
\* invocation in flight fails it.
SchemaClass == ~cls.overridesValidate /\ IsObject(cls.validation)
FailsSchema ==
  /\ Called("validate") /\ SchemaClass
  /\ LIVRFails(cls.validation, context.inputData)

\* The error map the validator reported, an empty map if it reported none.
ReportedFields ==
  IF GetErrors(validator).k = "null" THEN Obj({}) ELSE GetErrors(validator)

ValidationError(fields) == Err("ServiceError", "VALIDATION_ERROR", fields, 0)

NoPhaseAfterValidate ==
  ~Called("checkPermissions") /\ ~Called("aroundExecute") /\ ~Called("execute")

\* C2 as stated: for every input failing the schema run rejects with the
\* VALIDATION_ERROR ServiceError carrying the validator's error map, and
\* checkPermissions, aroundExecute and execute are never invoked.
C2_Original ==
  (IsSettled /\ FailsSchema) =>
     /\ settled = Rejected(ValidationError(ReportedFields))
     /\ NoPhaseAfterValidate

\* C2 as amended: for every input failing the schema, checkPermissions,
\* aroundExecute and execute are never invoked, onError is handed the
\* VALIDATION_ERROR ServiceError carrying the validator's error map (an empty
\* map if it reported none), and run rejects with that ServiceError provided
\* onError completes without raising; if onError raises, run rejects with
\* onError's error.
C2_ValidationFailure ==
  FailsSchema =>
     /\ NoPhaseAfterValidate
     /\ ~Called("onSuccess")
     /\ IsSettled =>
          /\ Len(OnErrorArgs) = 1
          /\ OnErrorArgs[1].err = ValidationError(ReportedFields)
          /\ OnErrorReturned => settled = Rejected(ValidationError(ReportedFields))
          /\ OnErrorRaised => settled = Rejected(OnErrorHookError)

\* An input without the required field was rejected with the field's error.
C2_Witness ==
  /\ IsSettled /\ FailsSchema /\ OnErrorReturned
  /\ settled = Rejected(ValidationError(Obj({<<"name", "REQUIRED">>})))

-----------------------------------------------------------------------------
Denials == Events("checkPermissions", "raise")

\* What validate returned: the validated data.
ValidatedData == trace[CHOOSE i \in Events("validate", "return") : TRUE].val

NoChain == ~Called("aroundExecute") /\ ~Called("execute")

\* C3 as stated: when checkPermissions raises a denial, run rejects with that
\* error, aroundExecute and execute are never entered, onSuccess is never
\* invoked and onError gets a context whose cleanData is the validated data.
C3_Original ==
  \A i \in Denials :
     IsSettled =>
        /\ settled = Rejected(trace[i].err)
        /\ NoChain /\ ~Called("onSuccess")
        /\ Len(OnErrorArgs) = 1
        /\ OnErrorArgs[1].ctx.cleanData = ValidatedData
        /\ OnErrorArgs[1].ctx.cleanData.k \notin {"null", "undefined"}

\* C3 as amended: when checkPermissions raises a denial, aroundExecute and
\* execute are never entered, onSuccess is never invoked, onError is invoked
\* with that error and a context whose cleanData is the validated data
\* (non-null), and run rejects with that same error provided onError
\* completes without raising; if onError raises, run rejects with onError's
\* error.
C3_Denial ==
  \A i \in Denials :
     /\ NoChain /\ ~Called("onSuccess")
     /\ Called("onError")
     /\ Len(OnErrorArgs) = 1
     /\ OnErrorArgs[1].err = trace[i].err
     /\ OnErrorArgs[1].ctx.cleanData = ValidatedData
     /\ OnErrorArgs[1].ctx.cleanData.k \notin {"null", "undefined"}
     /\ IsSettled =>
          /\ OnErrorReturned => settled = Rejected(trace[i].err)
          /\ OnErrorRaised => settled = Rejected(OnErrorHookError)

\* A denial after a validation that dropped a field of the input.
C3_Witness ==
  /\ IsSettled /\ Denials # {} /\ OnErrorReturned
  /\ settled = Rejected(DenialError)
  /\ context.inputData = Obj({<<"name", "a">>, <<"extra", "1">>})
  /\ OnErrorArgs[1].ctx.cleanData = Obj({<<"name", "a">>})

-----------------------------------------------------------------------------
ReturnedFalse == \E i \in Events("checkPermissions", "return") : trace[i].val = False

\* C4 as stated: a checkPermissions call returning false aborts the pipeline:
\* execute is never invoked and run does not resolve with a business result.
C4_Original ==
  ReturnedFalse =>
     /\ ~Called("execute")
     /\ ~(IsSettled /\ settled.state = "resolved" /\ settled.val.k = "result")

\* C4 as amended: a checkPermissions call that returns false (without
\* raising) does not abort the pipeline: the returned value is not looked at,
\* and aroundExecute of the most derived layer is called next with the clean
\* data, exactly as after a return of true.
C4_ReturnIgnored ==
  \A i \in Events("checkPermissions", "return") :
     /\ ~Called("onError") \/ (\A j \in Events("onError", "call") : j > i + 1)
     /\ i = Len(trace) =>
          pc = "aroundExecute" /\ cur = Len(cls.layers) /\ data = context.cleanData
     /\ i < Len(trace) =>
          /\ trace[i + 1].who = "aroundExecute" /\ trace[i + 1].ev = "call"
          /\ trace[i + 1].layer = Len(cls.layers)
          /\ trace[i + 1].val = context.cleanData

\* checkPermissions returned false and run resolved with execute's result.
C4_Witness ==
  /\ ReturnedFalse /\ Called("execute")
  /\ IsSettled /\ settled.state = "resolved" /\ settled.val.k = "result"

-----------------------------------------------------------------------------
\* C5 as stated: in every invocation exactly one of onSuccess and onError is
\* invoked, exactly once.
C5_Original ==
  IsSettled => NCalls("onSuccess") + NCalls("onError") = 1

\* C5 as amended: in every invocation that passes run's runtime checks each
\* of onSuccess and onError is invoked at most once and at least one of them
\* is invoked; both are invoked exactly when onSuccess raises, onError then
\* getting the error onSuccess raised; an invocation rejected by the runtime
\* checks (execute or checkPermissions missing) invokes neither.
C5_Hooks ==
  /\ NCalls("onSuccess") <= 1
  /\ NCalls("onError") <= 1
  /\ IsSettled =>
       IF RuntimeCheck(cls).ok
       THEN /\ NCalls("onSuccess") + NCalls("onError") >= 1
            /\ (NCalls("onSuccess") = 1 /\ NCalls("onError") = 1) <=> OnSuccessRaised
            /\ OnSuccessRaised => OnErrorArgs[1].err = OnSuccessHookError
       ELSE NCalls("onSuccess") = 0 /\ NCalls("onError") = 0

\* Both hooks ran in one invocation.
C5_Witness ==
  IsSettled /\ NCalls("onSuccess") = 1 /\ NCalls("onError") = 1

-----------------------------------------------------------------------------
\* The raises of validate, checkPermissions, an aroundExecute layer or
\* execute.
PhaseRaises ==
  {i \in DOMAIN trace :
     /\ trace[i].ev = "raise"
     /\ trace[i].who \in {"validate", "checkPermissions", "aroundExecute", "execute"}}

\* An error raised inside the chain is caught when an enclosing layer
\* afterwards returns or awaits its inner chain again.
CaughtByLayer(i) ==
  \E j \in DOMAIN trace :
     j > i /\ trace[j].who = "aroundExecute" /\ trace[j].ev \in {"return", "retry"}

\* C6 as stated: whenever validate, checkPermissions, an aroundExecute layer
\* or execute raises an error and onError completes without raising, onError
\* has been invoked exactly once, with that error, and run rejects with the
\* identical error.
C6_Original ==
  \A i \in PhaseRaises :
     (IsSettled /\ OnErrorReturned) =>
        /\ Len(OnErrorArgs) = 1
        /\ OnErrorArgs[1].err = trace[i].err
        /\ settled = Rejected(trace[i].err)

\* C6 as amended: whenever validate, checkPermissions, an aroundExecute layer
\* or execute raises an error that no enclosing aroundExecute layer catches,
\* onError is invoked exactly once, with that error, and when onError
\* completes without raising run rejects with the identical error; run never
\* resolves after an error has reached it.
C6_ErrorPropagation ==
  \A i \in PhaseRaises :
     (IsSettled /\ ~CaughtByLayer(i)) =>
        /\ settled.state = "rejected"
        /\ Len(OnErrorArgs) = 1
        /\ OnErrorArgs[1].err = trace[i].err
        /\ OnErrorReturned => settled = Rejected(trace[i].err)

\* execute raised below a layer and run rejected with execute's error.
C6_Witness ==
  /\ IsSettled /\ OnErrorReturned /\ Len(cls.layers) > 0
  /\ \E i \in Events("execute", "raise") : settled = Rejected(trace[i].err)

-----------------------------------------------------------------------------
MalformedValidation == ~cls.overridesValidate /\ cls.validation.k \in {"string", "null"}
MalformedRules == cls.overridesValidate /\ ~IsObject(cls.rules)
MissingMethod == ~cls.hasExecute \/ ~cls.hasCheckPermissions

\* C7 as stated: a configuration error (malformed static validation,
\* malformed rules given to validateWithRules, a missing execute or
\* checkPermissions) makes run reject and is never delivered to onError.
C7_Original ==
  (IsSettled /\ (MalformedValidation \/ MalformedRules \/ MissingMethod)) =>
     settled.state = "rejected" /\ ~Called("onError")

\* C7 as amended: a missing execute or checkPermissions makes run reject
\* before any phase starts and is never delivered to onError; a static
\* validation or rules given to validateWithRules that are not a non-null
\* object raise a plain Error inside validate, which is delivered to onError
\* like any other error before run rejects (with that Error when onError
\* completes without raising); no later phase is invoked.
C7_ConfigurationErrors ==
  IsSettled =>
     /\ MissingMethod =>
          /\ settled = Rejected(RuntimeCheck(cls).err)
          /\ trace = <<>>
     /\ ((MalformedValidation \/ MalformedRules) /\ ~MissingMethod) =>
          /\ settled.state = "rejected"
          /\ NoPhaseAfterValidate /\ ~Called("onSuccess")
          /\ Len(OnErrorArgs) = 1
          /\ OnErrorArgs[1].err.type = "Error"
          /\ OnErrorArgs[1].err \in
               { PlainError("validation must be a non-null object"),
                 PlainError("validateWithRules: rules must be a non-null object") }
          /\ \A i \in Events("validate", "raise") : OnErrorArgs[1].err = trace[i].err
          /\ OnErrorReturned => settled = Rejected(OnErrorArgs[1].err)

\* A null static validation was reported to onError.
C7_Witness ==
  /\ IsSettled /\ cls.validation = Null /\ OnErrorReturned
  /\ OnErrorArgs[1].err = PlainError("validation must be a non-null object")

-----------------------------------------------------------------------------
AllStd == \A k \in DOMAIN cls.layers : cls.layers[k] = "std"

\* before_N ... before_1, execute, after_1 ... after_N
OnionOrder(n) ==
  [i \in 1..(2 * n + 1) |->
     IF i <= n THEN Marker("before", n - i + 1)
     ELSE IF i = n + 1 THEN Marker("execute", 0)
     ELSE Marker("after", i - n - 1)]

\* C8: with N >= 0 layers that each push a before marker, await
\* super.aroundExecute and push an after marker, a successful run records
\* exactly before_N ... before_1, execute, after_1 ... after_N.
C8_OnionOrder ==
  (IsSettled /\ settled.state = "resolved" /\ AllStd) =>
     calls = OnionOrder(Len(cls.layers))

\* A successful run through the deepest chain of such layers.
C8_Witness ==
  /\ IsSettled /\ settled.state = "resolved" /\ AllStd
  /\ Len(cls.layers) = MaxLayers /\ Len(calls) = 2 * MaxLayers + 1

-----------------------------------------------------------------------------
\* The layers that raised instead of calling proceed.
RaisingLayers ==
  {i \in Events("aroundExecute", "raise") : cls.layers[trace[i].layer] = "raise"}

InnerNeverRan(k) ==
  /\ \A j \in DOMAIN calls : calls[j].m \in {"before", "after"} => calls[j].layer >= k
  /\ \A j \in Events("aroundExecute", "call") : trace[j].layer >= k

\* C9 as stated: if a layer raises instead of calling proceed, execute is
\* never invoked, the after-logic of the layers inside it never runs, onError
\* receives exactly that error and run rejects with it.
C9_Original ==
  \A i \in RaisingLayers :
     IsSettled =>
        /\ ~Called("execute")
        /\ InnerNeverRan(trace[i].layer)
        /\ Len(OnErrorArgs) = 1
        /\ OnErrorArgs[1].err = trace[i].err
        /\ settled = Rejected(trace[i].err)

\* C9 as amended: if a layer raises instead of calling proceed, execute is
\* never invoked and no layer inside it runs; unless an enclosing layer
\* catches the error, onError receives exactly that error, and run rejects
\* with it provided onError completes without raising (run rejects with
\* onError's error if onError raises).
C9_LayerRaises ==
  \A i \in RaisingLayers :
     /\ ~Called("execute")
     /\ InnerNeverRan(trace[i].layer)
     /\ (IsSettled /\ ~CaughtByLayer(i)) =>
          /\ Len(OnErrorArgs) = 1
          /\ OnErrorArgs[1].err = trace[i].err
          /\ OnErrorReturned => settled = Rejected(trace[i].err)
          /\ OnErrorRaised => settled = Rejected(OnErrorHookError)

\* The innermost of two layers raised and run rejected with its error.
C9_Witness ==
  /\ IsSettled /\ OnErrorReturned /\ Len(cls.layers) = 2
  /\ \E i \in RaisingLayers : trace[i].layer = 1 /\ settled = Rejected(LayerError(1))

-----------------------------------------------------------------------------
\* The layers that completed without calling proceed or super.aroundExecute.
SkippingLayers ==
  {i \in Events("aroundExecute", "return") : cls.layers[trace[i].layer] = "skip"}

\* C10 as stated: if a layer completes without calling proceed, execute is
\* never invoked and no result is produced on that path: onSuccess is handed
\* no value and run resolves with none.
C10_Original ==
  \A i \in SkippingLayers :
     /\ ~Called("execute")
     /\ \A j \in Events("onSuccess", "call") : trace[j].val = Undefined
     /\ (IsSettled /\ settled.state = "resolved") => settled.val = Undefined

\* C10 as amended: if a layer completes without calling proceed (or
\* super.aroundExecute), execute is never invoked on that path, and what the
\* layer returned (undefined if it returned nothing) is the result of the
\* path: handed up by the enclosing layers it is given to onSuccess, and run
\* resolves with it provided onSuccess completes without raising.
C10_LayerSkips ==
  \A i \in SkippingLayers :
     /\ ~Called("execute")
     /\ IsSettled =>
          /\ NCalls("onSuccess") = 1
          /\ \A j \in Events("onSuccess", "call") : trace[j].val = trace[i].val
          /\ OnSuccessReturned => settled = Resolved(trace[i].val)
          /\ OnSuccessRaised => settled.state = "rejected"

\* A layer short-circuited and run resolved with the layer's value.
C10_Witness ==
  /\ IsSettled /\ SkippingLayers # {} /\ ~Called("execute")
  /\ settled = Resolved(Cached)

-----------------------------------------------------------------------------
(* ValidationSpec.  The two validation methods of an instance, called       *)
(* directly and in any sequence on instances of one class: validate(data)   *)
(* of ServiceBase and validateWithRules(data, rules).  trace holds the last *)
(* call with its arguments and outcome, awaited its outcome.                *)

\* The rules given to validateWithRules.
RuleSets ==
  { StaticRules, DynamicRules, Obj({}), Null,
    Obj({<<"name", "required">>, <<"extra", "required">>}) }

\* Classes with or without a schema.
ValidationClasses ==
  {c \in Classes :
     /\ ~c.overridesValidate /\ c.validation \in {Undefined, StaticRules}
     /\ c.hasExecute /\ c.hasCheckPermissions /\ c.layers = <<>>}

Outcome(who, out) ==
  IF out.ok THEN Ev(who, "return", 0, out.val, NoError, NoContext)
  ELSE Ev(who, "raise", 0, Undefined, out.err, NoContext)

\* instance.validate(inputData)
DirectValidate(inputData) ==
  /\ pc = "idle"
  /\ UNCHANGED cvars
  /\ UNCHANGED <<cls, pc, context, cur, data, stack, result, caught, settled, calls>>
  /\ LET v == validate(cls, validator, inputData)
     IN /\ awaited' = v.out
        /\ validator' = v.cache
        /\ trace' = << Ev("validate", "call", 0, inputData, NoError, NoContext),
                       Outcome("validate", v.out) >>

\* Mutant: the validator built for the rules is kept as the class's validator.
DirectValidateWithRules_Cached(inputData, rules) ==
  /\ pc = "idle"
  /\ UNCHANGED cvars
  /\ UNCHANGED <<cls, pc, context, cur, data, stack, result, caught, settled, calls>>
  /\ LET out == validateWithRules(inputData, rules)
     IN /\ awaited' = out
        /\ validator' = IF IsObject(rules) THEN NewValidator(rules) ELSE validator
        /\ trace' = << Ev("validateWithRules", "call", 0, inputData, NoError, NoContext),
                       Ev("validateWithRules", "rules", 0, rules, NoError, NoContext),
                       Outcome("validateWithRules", out) >>

\* instance.validateWithRules(inputData, rules): the validator is a local of
\* the call, ctor.__validator is not touched.
DirectValidateWithRules(inputData, rules) ==
  /\ pc = "idle"
  /\ UNCHANGED cvars
  /\ UNCHANGED <<cls, pc, context, cur, data, stack, result, caught, settled, calls>>
  /\ LET out == validateWithRules(inputData, rules)
     IN /\ awaited' = out
        /\ validator' = validator
        /\ trace' = << Ev("validateWithRules", "call", 0, inputData, NoError, NoContext),
                       Ev("validateWithRules", "rules", 0, rules, NoError, NoContext),
                       Outcome("validateWithRules", out) >>

\* What is assigned to the class's static validation between calls.
Assigned == {Undefined, StaticRules, DynamicRules, Null, Str("not an object")}

\* Class.validation = v
AssignValidation(v) ==
  /\ pc = "idle" /\ v # cls.validation
  /\ UNCHANGED cvars
  /\ UNCHANGED <<validator, pc, context, awaited, cur, data, stack, result, caught, settled,
                 trace, calls>>
  /\ cls' = [cls EXCEPT !.validation = v]

ValidationInit ==
  /\ NoInvocations
  /\ cls \in ValidationClasses
  /\ validator = NoValidator
  /\ pc = "idle"
  /\ context = NoContext
  /\ awaited = Ret(Undefined)
  /\ cur = 0
  /\ data = Undefined
  /\ stack = <<>>
  /\ result = Undefined
  /\ caught = NoError
  /\ settled = Pending
  /\ trace = <<>>
  /\ calls = <<>>

ValidationNext ==
  \/ \E inputData \in RawInputs : DirectValidate(inputData)
  \/ \E inputData \in RawInputs, rules \in RuleSets :
        DirectValidateWithRules(inputData, rules)
  \/ \E v \in Assigned : AssignValidation(v)

ValidationSpec == ValidationInit /\ [][ValidationNext]_<<vars, cvars>>

-----------------------------------------------------------------------------
(* ErrorSpec.  The ServiceError class (src/ServiceError.ts): the            *)
(* constructor with its message and checks, and toObject.  A string is the  *)
(* sequence of its pieces (the empty string is <<>>), an object the         *)
(* sequence of its <<name, value>> properties in insertion order.  trace    *)
(* holds the calls made on the error under construction and their outcomes. *)

\* Most properties of the fields objects explored.
MaxFields == 2

JsString(s) == [k |-> "string", s |-> s, props |-> <<>>]
JsObject(props) == [k |-> "obj", s |-> <<>>, props |-> props]
JsOther(kind) == [k |-> kind, s |-> <<>>, props |-> <<>>]

Range(f) == {f[i] : i \in DOMAIN f}

\* Property names: the empty string, two ordinary names, two integer-like ones.
FieldNames == { <<>>, <<"a">>, <<"b">>, <<"1">>, <<"2">> }

\* The integer-like names, ascending.
IndexNames == << <<"1">>, <<"2">> >>

\* Object literals { name: 'REQUIRED', ... } with their properties in the
\* order written.
FieldObjects ==
  { JsObject([i \in DOMAIN names |-> <<names[i], JsString(<<"REQUIRED">>)>>]) :
      names \in UNION { {s \in [1..n -> FieldNames] :
                            \A i, j \in 1..n : i # j => s[i] # s[j]} :
                        n \in 0..MaxFields } }

\* What is given as fields: nothing, null, a string, or an object.
FieldsArgs ==
  { JsOther("undefined"), JsOther("null"), JsString(<<"REQUIRED">>) } \cup FieldObjects

\* What is given as code: nothing, null, a number, a symbol, or a string.
CodeArgs ==
  { JsOther("undefined"), JsOther("null"), JsOther("number"), JsOther("symbol"),
    JsString(<<>>), JsString(<<"NOT_FOUND">>), JsString(<<"VALIDATION_ERROR">>) }

\* Object.keys(obj): the integer-like names in ascending order, then the
\* other names in insertion order.
ObjectKeys(obj) ==
  LET names == [i \in DOMAIN obj.props |-> obj.props[i][1]]
  IN SelectSeq(IndexNames, LAMBDA n : n \in Range(names))
       \o SelectSeq(names, LAMBDA n : n \notin Range(IndexNames))

\* keys.join(sep)
RECURSIVE Join(_, _)
Join(keys, sep) ==
  IF keys = <<>> THEN <<>>
  ELSE IF Len(keys) = 1 THEN keys[1]
  ELSE keys[1] \o sep \o Join(Tail(keys), sep)

\* `${v}` of a value that is not a symbol.
TemplateString(v) ==
  CASE v.k = "string" -> v.s
    [] v.k = "number" -> <<"404">>
    [] OTHER -> <<v.k>>

\* Mutant: the joined names are used even when they are the empty string.
ErrorMessage_NoFallback(code, fieldKeys) ==
  TemplateString(code) \o <<": ">> \o Join(fieldKeys, <<", ">>)

\* `${code}: ${fieldKeys.join(', ') || 'validation failed'}`
ErrorMessage(code, fieldKeys) ==
  LET joined == Join(fieldKeys, <<", ">>)
  IN TemplateString(code) \o <<": ">>
       \o (IF joined = <<>> THEN <<"validation failed">> ELSE joined)

IsJsObject(v) == v.k = "obj"

ServiceErrorInstance(message, fields, code) ==
  [type |-> "ServiceError", message |-> message, fields |-> fields, code |-> code]

\* Mutant: the code is checked before the fields.
ServiceErrorConstructor_CodeFirst(fieldsArg, codeArg) ==
  LET code == IF codeArg.k = "undefined" THEN JsString(<<DefaultCode>>) ELSE codeArg
      fieldKeys == IF IsJsObject(fieldsArg) THEN ObjectKeys(fieldsArg) ELSE <<>>
  IN IF code.k = "symbol"
     THEN Throw(Err("TypeError", "Cannot convert a Symbol value to a string", Undefined, 0))
     ELSE IF code.k # "string" \/ code.s = <<>>
     THEN Throw(PlainError("'code' must be a non-empty string"))
     ELSE IF ~IsJsObject(fieldsArg)
     THEN Throw(PlainError("'fields' must be a non-null object"))
     ELSE Ret(ServiceErrorInstance(ErrorMessage(code, fieldKeys), fieldsArg, code))

\* new ServiceError({ fields, code }): the default of code, the message
\* handed to super, the two checks, the two private fields.
ServiceErrorConstructor(fieldsArg, codeArg) ==
  LET code == IF codeArg.k = "undefined" THEN JsString(<<DefaultCode>>) ELSE codeArg
      fieldKeys == IF IsJsObject(fieldsArg) THEN ObjectKeys(fieldsArg) ELSE <<>>
  IN IF code.k = "symbol"
     THEN Throw(Err("TypeError", "Cannot convert a Symbol value to a string", Undefined, 0))
     ELSE IF ~IsJsObject(fieldsArg)
     THEN Throw(PlainError("'fields' must be a non-null object"))
     ELSE IF code.k # "string" \/ code.s = <<>>
     THEN Throw(PlainError("'code' must be a non-empty string"))
     ELSE Ret(ServiceErrorInstance(ErrorMessage(code, fieldKeys), fieldsArg, code))

\* Mutant: only the fields are serialized.
toObject_FieldsOnly(e) == JsObject(<< <<"fields", e.fields>> >>)

\* toObject(): { fields: this.fields, code: this.code }
toObject(e) == JsObject(<< <<"fields", e.fields>>, <<"code", e.code>> >>)

\* obj[name], undefined when obj has no such property.
Get(obj, name) ==
  IF \E i \in DOMAIN obj.props : obj.props[i][1] = name
  THEN obj.props[CHOOSE i \in DOMAIN obj.props : obj.props[i][1] = name][2]
  ELSE JsOther("undefined")

Options(fieldsArg, codeArg) == [fields |-> fieldsArg, code |-> codeArg]

\* new ServiceError({ fields, code })
NewServiceError(fieldsArg, codeArg) ==
  /\ UNCHANGED cvars
  /\ UNCHANGED <<cls, validator, pc, context, cur, data, stack, result, caught, settled, calls>>
  /\ LET out == ServiceErrorConstructor(fieldsArg, codeArg)
     IN /\ awaited' = out
        /\ trace' = << Ev("ServiceError", "call", 0, Options(fieldsArg, codeArg), NoError, NoContext),
                       Outcome("ServiceError", out) >>

LastEvent == trace[Len(trace)]

\* error.toObject() on an error just constructed from given options
CallToObject ==
  /\ Len(trace) = 2 /\ LastEvent.who = "ServiceError" /\ LastEvent.ev = "return"
  /\ UNCHANGED cvars
  /\ UNCHANGED <<cls, validator, pc, context, cur, data, stack, result, caught, settled, calls, awaited>>
  /\ trace' = Append(trace, Ev("toObject", "return", 0, toObject(LastEvent.val), NoError, NoContext))

\* new ServiceError(error.toObject())
RoundTrip ==
  /\ Len(trace) = 3 /\ LastEvent.who = "toObject"
  /\ UNCHANGED cvars
  /\ UNCHANGED <<cls, validator, pc, context, cur, data, stack, result, caught, settled, calls>>
  /\ LET fieldsArg == Get(LastEvent.val, "fields")
         codeArg == Get(LastEvent.val, "code")
         out == ServiceErrorConstructor(fieldsArg, codeArg)
     IN /\ awaited' = out
        /\ trace' = trace \o << Ev("ServiceError", "call", 0, Options(fieldsArg, codeArg), NoError, NoContext),
                                Outcome("ServiceError", out) >>

ErrorInit ==
  /\ NoInvocations
  /\ cls = ClassOf("Parent")
  /\ validator = NoValidator
  /\ pc = "idle"
  /\ context = NoContext
  /\ awaited = Ret(Undefined)
  /\ cur = 0
  /\ data = Undefined
  /\ stack = <<>>
  /\ result = Undefined
  /\ caught = NoError
  /\ settled = Pending
  /\ trace = <<>>
  /\ calls = <<>>

ErrorNext ==
  \/ \E fieldsArg \in FieldsArgs, codeArg \in CodeArgs : NewServiceError(fieldsArg, codeArg)
  \/ CallToObject
  \/ RoundTrip

ErrorSpec == ErrorInit /\ [][ErrorNext]_<<vars, cvars>>

-----------------------------------------------------------------------------
(* Reading the state of ConcurrentSpec.                                     *)

Started == {i \in Invocations : inv[i].pc # "new"}
BuiltFor(c) == {k \in DOMAIN heap : heap[k].class = c}

\* What validate gives for the input when the class is run alone.
Alone(c, inputData) == validate(ClassOf(c), NoValidator, inputData).out

-----------------------------------------------------------------------------
\* C11 as stated: two classes that declare a schema each never use the same
\* cached validator, whatever their inheritance relation: every invocation
\* validates with a validator compiled from the schema of its own class.
C11_OwnValidator ==
  /\ \A i \in Started :
       /\ heap[inv[i].used].class = inv[i].class
       /\ heap[inv[i].used].validator.rules = Schema(inv[i].class)
  /\ \A i, j \in Started :
       inv[i].class # inv[j].class => inv[i].used # inv[j].used

\* Child extends Parent, Parent ran first, and an input without the field
\* Child requires passed Child's validation, checked against Parent's schema.
C11_Witness ==
  \E i \in Started :
     /\ childExtends /\ inv[i].class = "Child"
     /\ heap[inv[i].used].class = "Parent"
     /\ inv[i].inputData = Obj({<<"name", "a">>})
     /\ inv[i].settled = Resolved(Result(Obj({<<"name", "a">>})))

-----------------------------------------------------------------------------
\* A run of class c starts in this step, as invocation i.
Starts(i, c) ==
  /\ inv[i].pc = "new"
  /\ inv'[i].pc = "validate" /\ inv'[i].class = c

\* C12: once the validator of a class has been built, its cache slot is
\* never written again, replaced or cleared, the validator in it stays the
\* one compiled at the first invocation, and every later invocation of the
\* class validates with that validator.
C12_CacheStable ==
  [][ /\ \A c \in ClassNames : slots[c] # 0 => slots'[c] = slots[c]
      /\ \A k \in DOMAIN heap :
           /\ k \in DOMAIN heap'
           /\ heap'[k].class = heap[k].class
           /\ heap'[k].validator.rules = heap[k].validator.rules
      /\ \A i \in Invocations, c \in ClassNames :
           (Starts(i, c) /\ slots[c] # 0) => inv'[i].used = slots[c]
    ]_<<vars, cvars>>

\* A second run of a class has started after a first one settled, both
\* with the validator the class has cached.
C12_Witness ==
  \E i, j \in Started :
     /\ i # j /\ inv[i].class = inv[j].class
     /\ inv[i].pc = "settled" /\ inv[j].pc = "validate"
     /\ slots[inv[i].class] # 0
     /\ inv[i].used = slots[inv[i].class] /\ inv[j].used = inv[i].used

-----------------------------------------------------------------------------
-----------------------------------------------------------------------------
\* What validate gives invocation i for its own input, with the validator
\* it used.
OwnOutcome(i) == Alone(heap[inv[i].used].class, inv[i].inputData)

-----------------------------------------------------------------------------
\* The argument run was called with.
RawInput == trace[1].val

\* C15: for every input that passes the schema, checkPermissions is called
\* with the clean data validate returned (the declared fields of the input),
\* not with the raw input, and with the default aroundExecute execute is
\* called with that same clean data.
C15_CleanDataPassed ==
  (Called("validate") /\ SchemaClass) =>
     /\ \A i \in Events("checkPermissions", "call") :
          /\ trace[i].val = ValidatedData
          /\ trace[i].val = LIVRClean(cls.validation, RawInput)
     /\ cls.layers = <<>> =>
          \A i \in Events("execute", "call") : trace[i].val = ValidatedData

\* An input with a field the schema does not declare reached execute,
\* through the default aroundExecute, without that field.
C15_Witness ==
  /\ SchemaClass /\ cls.layers = <<>> /\ Called("execute")
  /\ RawInput = Obj({<<"name", "a">>, <<"extra", "1">>})
  /\ \A i \in Events("checkPermissions", "call") \cup Events("execute", "call") :
       trace[i].val = Obj({<<"name", "a">>})

-----------------------------------------------------------------------------
NoSchema == ~cls.overridesValidate /\ cls.validation = Undefined

\* C16: when the class configures no schema validate never fails: null and
\* undefined input give an empty object, every other input is returned
\* unchanged, and that value becomes the clean data.
C16_NoSchema ==
  (Called("validate") /\ NoSchema) =>
     /\ Events("validate", "raise") = {}
     /\ Events("validate", "return") # {}
     /\ ValidatedData = IF RawInput \in {Null, Undefined} THEN Obj({}) ELSE RawInput
     /\ pc # "validate" => context.cleanData = ValidatedData

\* Without a schema, null input reached checkPermissions as an empty object.
C16_Witness ==
  /\ NoSchema /\ Called("validate") /\ RawInput = Null
  /\ \E i \in Events("checkPermissions", "call") : trace[i].val = Obj({})

-----------------------------------------------------------------------------
\* The field errors a validator built for the rules reports for the data.
FreshFields(rules, inputData) ==
  IF LIVRErrors(rules, inputData).k = "null" THEN Obj({})
  ELSE LIVRErrors(rules, inputData)

\* What a call of validateWithRules gives, the cache left aside.
FreshOutcome(rules, inputData) ==
  IF LIVRFails(rules, inputData)
  THEN Throw(ValidationError(FreshFields(rules, inputData)))
  ELSE Ret(LIVRClean(rules, inputData))

\* C17: a call of validateWithRules leaves the class's cached validator as
\* it is, and its outcome is that of a validator built for the rules given,
\* whatever the cache holds: the clean data, or a ServiceError with code
\* VALIDATION_ERROR and that validator's field errors.
C17_FreshValidator ==
  [][ (trace' # <<>> /\ trace'[1].who = "validateWithRules") =>
        /\ validator' = validator
        /\ IsObject(trace'[2].val) =>
             awaited' = FreshOutcome(trace'[2].val, trace'[1].val)
    ]_<<vars, cvars>>

\* validateWithRules failed with the errors of its own rules while the
\* cached validator holds the errors of an earlier validate.
C17_Witness ==
  /\ trace # <<>> /\ trace[1].who = "validateWithRules"
  /\ validator.built /\ validator.errors = Obj({<<"name", "REQUIRED">>})
  /\ awaited = Throw(ValidationError(Obj({<<"extra", "REQUIRED">>})))

-----------------------------------------------------------------------------
\* The returns of the outermost aroundExecute: of the most derived override,
\* or of execute through the default aroundExecute.
OutermostReturns ==
  IF cls.layers = <<>> THEN Events("execute", "return")
  ELSE {j \in Events("aroundExecute", "return") : trace[j].layer = Len(cls.layers)}

\* C18: whenever onSuccess is invoked the outermost aroundExecute has just
\* returned, onSuccess is given the value it returned and a context with
\* endTime and executionTimeMs stamped, cleanData the validated data and
\* inputData the argument of run; and when onSuccess completes run resolves
\* with that value, whatever onSuccess returned.
C18_OnSuccessContext ==
  \A i \in Events("onSuccess", "call") :
     /\ (i - 1) \in OutermostReturns
     /\ trace[i].val = trace[i - 1].val
     /\ trace[i].ctx.endTime # Null /\ trace[i].ctx.endTime # Undefined
     /\ trace[i].ctx.executionTimeMs # Null /\ trace[i].ctx.executionTimeMs # Undefined
     /\ trace[i].ctx.cleanData = ValidatedData
     /\ trace[i].ctx.inputData = RawInput
     /\ (IsSettled /\ OnSuccessReturned) => settled = Resolved(trace[i - 1].val)

\* onSuccess returned a value of its own and run resolved with execute's result.
C18_Witness ==
  /\ IsSettled /\ settled.state = "resolved" /\ settled.val.k = "result"
  /\ \E j \in Events("onSuccess", "return") : trace[j].val = Str("from hook")

-----------------------------------------------------------------------------
Stamped(ctx) == ctx.endTime # Null /\ ctx.executionTimeMs # Null
Unstamped(ctx) == ctx.endTime = Null /\ ctx.executionTimeMs = Null

\* C19 as stated: every context passed to onError has endTime = null and
\* executionTimeMs = null.
C19_Original ==
  \A i \in Events("onError", "call") : Unstamped(trace[i].ctx)

\* C19 as amended: the context passed to onError has endTime = null and
\* executionTimeMs = null when the error was raised by validate,
\* checkPermissions, the aroundExecute chain or execute; when onError is
\* invoked because onSuccess raised, the chain had completed and the context
\* carries the endTime and executionTimeMs stamped before onSuccess was
\* called.
C19_OnErrorTiming ==
  \A i \in Events("onError", "call") :
     /\ ~OnSuccessRaised => Unstamped(trace[i].ctx)
     /\ OnSuccessRaised =>
          /\ Stamped(trace[i].ctx)
          /\ \A j \in Events("onSuccess", "call") : trace[i].ctx = trace[j].ctx

\* execute raised and onError got a context without endTime.
C19_Witness ==
  /\ Events("execute", "raise") # {} /\ ~Called("onSuccess")
  /\ \E i \in Events("onError", "call") :
       trace[i].err = BusinessError /\ Unstamped(trace[i].ctx)

-----------------------------------------------------------------------------
NonNull(v) == v.k \notin {"null", "undefined"}

\* The chain ran to completion without throwing: the outermost aroundExecute
\* returned to run.
ChainCompleted == OutermostReturns # {}

\* C20 as stated: in every invocation the context's cleanData is non-null if
\* and only if onSuccess is invoked with that context, and endTime is
\* non-null if and only if the chain ran to completion without throwing.
C20_Original ==
  (IsSettled /\ Called("validate")) =>
     /\ NonNull(context.cleanData) <=> Called("onSuccess")
     /\ NonNull(context.endTime) <=> ChainCompleted

\* C20 as amended: in every invocation the context's cleanData is non-null
\* if and only if validate resolved, so it is non-null whenever onSuccess is
\* invoked but also when checkPermissions, the chain or execute fails
\* afterwards; endTime and executionTimeMs are non-null if and only if the
\* chain ran to completion without throwing.
C20_ContextFields ==
  Called("validate") =>
     /\ NonNull(context.cleanData) => Events("validate", "return") # {}
     /\ NonNull(context.endTime) => ChainCompleted
     /\ Called("onSuccess") => NonNull(context.cleanData) /\ NonNull(context.endTime)
     /\ IsSettled =>
          /\ NonNull(context.cleanData) <=> Events("validate", "return") # {}
          /\ NonNull(context.endTime) <=> ChainCompleted
          /\ NonNull(context.executionTimeMs) <=> ChainCompleted

\* A denial: cleanData is set although onSuccess was never invoked.
C20_Witness ==
  /\ IsSettled /\ Denials # {} /\ ~Called("onSuccess")
  /\ NonNull(context.cleanData) /\ ~NonNull(context.endTime)

-----------------------------------------------------------------------------
\* A step of the invocation in flight, after run has created its context.
InFlight == pc \notin {"idle", "settled"}

\* C21: within one invocation the orchestrator writes context.cleanData at
\* most once, only when validate has resolved, with the value validate
\* resolved with (it is null in every earlier state); it never changes
\* context.inputData or context.startTime after the context is created; and
\* endTime and executionTimeMs are always both null or both non-null.
C21_ContextWrites ==
  [][ /\ InFlight =>
           /\ context'.inputData = context.inputData
           /\ context'.startTime = context.startTime
           /\ context'.cleanData # context.cleanData =>
                /\ pc = "validate" /\ awaited.ok
                /\ context.cleanData = Null
                /\ context'.cleanData = awaited.val
                /\ NonNull(context'.cleanData)
      /\ (pc' = "validate") => context'.cleanData = Null
      /\ NonNull(context'.endTime) <=> NonNull(context'.executionTimeMs)
    ]_vars

\* The context at the end of a completed invocation: cleanData written,
\* endTime and executionTimeMs stamped, inputData as given to run.
C21_Witness ==
  /\ IsSettled /\ Called("onSuccess")
  /\ NonNull(context.cleanData) /\ context.cleanData # context.inputData
  /\ NonNull(context.endTime) /\ NonNull(context.executionTimeMs)
  /\ context.inputData = RawInput

-----------------------------------------------------------------------------
(* The terminal states of the state machine, read from the history.         *)

ValidationFailed == Events("validate", "raise") # {}
Denied == Denials # {}
\* The chain was entered and raised to run.
ExecutionFailed ==
  /\ pc \in {"onError", "settled"}
  /\ Called("aroundExecute") /\ ~ChainCompleted
Completed == ChainCompleted

TerminalStates ==
  { t \in {"ValidationFailed", "Denied", "ExecutionFailed", "Completed"} :
      \/ t = "ValidationFailed" /\ ValidationFailed
      \/ t = "Denied" /\ Denied
      \/ t = "ExecutionFailed" /\ ExecutionFailed
      \/ t = "Completed" /\ Completed }

\* The calls of aroundExecute that run itself made.
CoreChainCalls ==
  {i \in Events("aroundExecute", "call") : trace[i].layer = Len(cls.layers)}

RetryLayers == {k \in DOMAIN cls.layers : cls.layers[k] = "retry"}

\* No phase is invoked by run more than once.
NoCoreRetry ==
  /\ NCalls("validate") <= 1 /\ NCalls("checkPermissions") <= 1
  /\ Cardinality(CoreChainCalls) <= 1
  /\ NCalls("onSuccess") <= 1 /\ NCalls("onError") <= 1
  /\ RetryLayers = {} => NCalls("execute") <= 1

\* The first step of a new invocation.
NewRun ==
  /\ pc \in {"idle", "settled"}
  /\ trace' = <<>> \/ (Len(trace') = 2 /\ trace'[1].who = "validate")

\* C22 as stated: every invocation of run settles in exactly one of the
\* terminal states ValidationFailed, Denied, ExecutionFailed and Completed.
C22_Original ==
  IsSettled => Cardinality(TerminalStates) = 1

\* C22 as amended: when every callable that is called returns or raises, an
\* invocation of run that passes the runtime checks eventually settles, in
\* exactly one of the terminal states ValidationFailed, Denied,
\* ExecutionFailed and Completed (Completed also when onSuccess then raises
\* and run rejects), and never leaves it; an invocation on a service without
\* execute or checkPermissions settles at once, rejected, in none of them;
\* run itself never invokes a phase a second time.
C22_Termination ==
  /\ InFlight ~> IsSettled
  /\ [](Cardinality(TerminalStates) <= 1)
  /\ [](IsSettled =>
          IF trace = <<>>
          THEN MissingMethod /\ TerminalStates = {} /\ settled.state = "rejected"
          ELSE ~MissingMethod /\ Cardinality(TerminalStates) = 1
               /\ settled.state \in {"resolved", "rejected"}
               /\ settled.state = "resolved" => Completed)
  /\ []NoCoreRetry
  /\ [][ /\ IsSettled => NewRun
         /\ (InFlight /\ TerminalStates # {}) => TerminalStates' = TerminalStates
       ]_vars

\* An invocation settled in ExecutionFailed after a layer, not run, had
\* called its inner chain a second time.
C22_Witness ==
  /\ IsSettled /\ TerminalStates = {"ExecutionFailed"}
  /\ RetryLayers # {} /\ NCalls("execute") = 2
  /\ settled.state = "rejected"

-----------------------------------------------------------------------------
\* C23: if onError itself raises, run rejects with the error raised by
\* onError, which takes the place of the original error (the one handed to
\* onError); the original error is masked, run does not resolve.
C23_OnErrorMasks ==
  (IsSettled /\ OnErrorRaised) =>
     /\ settled.state = "rejected"
     /\ \A i \in Events("onError", "raise") : settled = Rejected(trace[i].err)
     /\ Len(OnErrorArgs) = 1
     /\ OnErrorArgs[1].err = caught
     /\ settled.err # caught

\* A denial was handed to onError, which raised: run rejected with the
\* hook's error.
C23_Witness ==
  /\ IsSettled /\ OnErrorRaised /\ caught = DenialError
  /\ settled = Rejected(OnErrorHookError)

-----------------------------------------------------------------------------
ConfigurationError == PlainError("validation must be a non-null object")

\* C24 as stated: when the static validation is defined but is not a
\* non-null object, every run rejects with the configuration error, which is
\* not a ServiceError; no validator is built or cached; checkPermissions and
\* execute are never invoked.
C24_Original ==
  MalformedValidation =>
     /\ validator = NoValidator
     /\ ~Called("checkPermissions") /\ ~Called("execute")
     /\ IsSettled => settled = Rejected(ConfigurationError)

\* C24 as amended: when the static validation of a service that has execute
\* and checkPermissions is defined but is not a non-null object, validate
\* raises the configuration error, which is not a ServiceError, in every run;
\* it is handed to onError and run rejects with it, or with the error of
\* onError when onError raises; no validator is built or cached, and
\* checkPermissions, aroundExecute, execute and onSuccess are never invoked.
\* Without execute or checkPermissions run rejects with the error of the
\* runtime check instead.
C24_MalformedValidation ==
  MalformedValidation =>
     /\ validator = NoValidator
     /\ ~Called("checkPermissions") /\ NoChain /\ ~Called("onSuccess")
     /\ \A i \in Events("validate", "call") :
          /\ trace[i + 1] = Ev("validate", "raise", 0, Undefined, ConfigurationError, trace[i].ctx)
          /\ ConfigurationError.type # "ServiceError"
     /\ \A i \in Events("onError", "call") : trace[i].err = ConfigurationError
     /\ IsSettled =>
          /\ settled.state = "rejected"
          /\ MissingMethod => settled = Rejected(RuntimeCheck(cls).err) /\ trace = <<>>
          /\ ~MissingMethod =>
               /\ Len(OnErrorArgs) = 1
               /\ OnErrorReturned => settled = Rejected(ConfigurationError)
               /\ OnErrorRaised => settled = Rejected(OnErrorHookError)

\* A string as static validation: run rejected with the configuration error
\* and nothing was cached.
C24_Witness ==
  /\ IsSettled /\ cls.validation = Str("not an object") /\ ~MissingMethod
  /\ settled = Rejected(ConfigurationError) /\ validator = NoValidator
  /\ OnErrorReturned

-----------------------------------------------------------------------------
\* C25: when the service lacks execute or checkPermissions, run rejects with
\* the error '<method>() must be implemented' before any phase starts:
\* validate, checkPermissions, aroundExecute, execute and both hooks are
\* never invoked and the cached validator stays as it was; when both are
\* missing the error names execute.
C25_MissingMethod ==
  /\ MissingMethod =>
       /\ trace = <<>> /\ calls = <<>>
       /\ validator = NoValidator
       /\ context = NoContext
       /\ pc \in {"idle", "settled"}
       /\ IsSettled =>
            /\ ~cls.hasExecute =>
                 settled = Rejected(PlainError("execute() must be implemented"))
            /\ (cls.hasExecute /\ ~cls.hasCheckPermissions) =>
                 settled = Rejected(PlainError("checkPermissions() must be implemented"))
  /\ (IsSettled /\ ~MissingMethod) => Called("validate")

\* Both methods are missing and run rejected with the error naming execute.
C25_Witness ==
  /\ IsSettled /\ ~cls.hasExecute /\ ~cls.hasCheckPermissions
  /\ settled = Rejected(PlainError("execute() must be implemented"))
  /\ ~Called("validate") /\ ~Called("onError")

-----------------------------------------------------------------------------
(* Reading the history of ErrorSpec.                                        *)

\* The constructions made: the call is at i, its outcome at i + 1.
Constructions == Events("ServiceError", "call")

ValidCode(code) == code.k = "string" /\ code.s # <<>>

\* The code the constructor works with: the default when none is given.
EffectiveCode(codeArg) ==
  IF codeArg.k = "undefined" THEN JsString(<<"VALIDATION_ERROR">>) ELSE codeArg

FieldsCheckError == PlainError("'fields' must be a non-null object")
CodeCheckError == PlainError("'code' must be a non-empty string")

\* C26: constructing a ServiceError fails when fields is missing, null or
\* not an object, and fails when code is empty or not a string; the fields
\* check is made before the code check; otherwise the error carries exactly
\* the given fields and the given code, the code being VALIDATION_ERROR when
\* none is given; so every ServiceError that exists has a non-empty string
\* as code and an object as fields.
C26_Construction ==
  \A i \in Constructions :
     LET given == trace[i].val
         out == trace[i + 1]
         code == EffectiveCode(given.code)
     IN /\ ~IsJsObject(given.fields) => out.ev = "raise"
        /\ ~ValidCode(code) => out.ev = "raise"
        /\ out.err = CodeCheckError => IsJsObject(given.fields) /\ ~ValidCode(code)
        /\ (~IsJsObject(given.fields) /\ given.code.k # "symbol") =>
             out.err = FieldsCheckError
        /\ (IsJsObject(given.fields) /\ ValidCode(code)) =>
             /\ out.ev = "return"
             /\ out.val.fields = given.fields
             /\ out.val.code = code
        /\ out.ev = "return" =>
             /\ out.val.type = "ServiceError"
             /\ ValidCode(out.val.code) /\ IsJsObject(out.val.fields)

\* An error constructed from two fields and no code carries VALIDATION_ERROR.
C26_Witness ==
  /\ Len(trace) = 2 /\ trace[2].ev = "return"
  /\ trace[1].val.code = JsOther("undefined")
  /\ Len(trace[1].val.fields.props) = 2
  /\ trace[2].val.code = JsString(<<"VALIDATION_ERROR">>)
  /\ trace[2].val.fields = trace[1].val.fields

-----------------------------------------------------------------------------
\* C27: for every ServiceError e, e.toObject() is exactly
\* { fields: e.fields, code: e.code }, and a ServiceError constructed from
\* e.toObject() has the same code and the same fields as e.
C27_RoundTrip ==
  \A i \in Events("toObject", "return") :
     LET e == trace[i - 1].val
         obj == trace[i].val
     IN /\ trace[i - 1].who = "ServiceError" /\ trace[i - 1].ev = "return"
        /\ Len(obj.props) = 2
        /\ Get(obj, "fields") = e.fields
        /\ Get(obj, "code") = e.code
        /\ Len(trace) >= i + 2 =>
             /\ trace[i + 1].val = Options(e.fields, e.code)
             /\ trace[i + 2].ev = "return"
             /\ trace[i + 2].val.code = e.code
             /\ trace[i + 2].val.fields = e.fields

\* A NOT_FOUND error with a field went through toObject and the constructor.
C27_Witness ==
  /\ Len(trace) = 5 /\ trace[5].ev = "return"
  /\ trace[5].val.code = JsString(<<"NOT_FOUND">>)
  /\ trace[5].val.fields.props # <<>>
  /\ trace[5].val = trace[2].val

-----------------------------------------------------------------------------
\* The names of an object's properties in insertion order.
InsertionNames(obj) == [i \in DOMAIN obj.props |-> obj.props[i][1]]

HasIndexName(obj) == \E n \in Range(InsertionNames(obj)) : n \in Range(IndexNames)

\* The ServiceErrors constructed.
Built == Events("ServiceError", "return")

\* C28 as stated: the message is '<code>: ' followed by the field names in
\* insertion order joined by ', ', or '<code>: validation failed' when
\* fields has no keys.
C28_Original ==
  \A i \in Built :
     LET e == trace[i].val
     IN e.message =
          e.code.s \o <<": ">> \o
            (IF e.fields.props = <<>> THEN <<"validation failed">>
             ELSE Join(InsertionNames(e.fields), <<", ">>))

\* C28 as amended: the message is '<code>: ' followed by the field names in
\* the order of Object.keys (integer-like names first, ascending, then the
\* other names in insertion order) joined by ', '; or '<code>: validation
\* failed' when that joined text is empty, which is when fields has no keys
\* or its only key is the empty string.
C28_Message ==
  \A i \in Built :
     LET e == trace[i].val
         names == InsertionNames(e.fields)
         keys == ObjectKeys(e.fields)
         fallback == names = <<>> \/ names = << <<>> >>
     IN /\ Range(keys) = Range(names) /\ Len(keys) = Len(names)
        /\ ~HasIndexName(e.fields) => keys = names
        /\ \A a, b \in DOMAIN keys :
             (a < b /\ keys[a] \in Range(IndexNames) /\ keys[b] \in Range(IndexNames))
               => keys[a] = <<"1">>
        /\ \A a, b \in DOMAIN keys :
             (a < b /\ keys[b] \in Range(IndexNames)) => keys[a] \in Range(IndexNames)
        /\ fallback => e.message = e.code.s \o <<": ", "validation failed">>
        /\ ~fallback => e.message = e.code.s \o <<": ">> \o Join(keys, <<", ">>)
        /\ ~fallback => Join(keys, <<", ">>) # <<>>

\* Two ordinary names: the message lists them in insertion order.
C28_Witness ==
  /\ Len(trace) = 2 /\ trace[2].ev = "return"
  /\ InsertionNames(trace[2].val.fields) = << <<"b">>, <<"a">> >>
  /\ trace[2].val.message = <<"NOT_FOUND", ": ", "b", ", ", "a">>

-----------------------------------------------------------------------------
\* The layers whose aroundExecute runs the inner chain in db.withTransaction.
TxLayers == {k \in DOMAIN cls.layers : cls.layers[k] = "tx"}

Opens(k) == {i \in Events("withTransaction", "BEGIN") : trace[i].layer = k}
Commits(k) == {i \in Events("withTransaction", "COMMIT") : trace[i].layer = k}
Rollbacks(k) == {i \in Events("withTransaction", "ROLLBACK") : trace[i].layer = k}
Closes(k) == Commits(k) \cup Rollbacks(k)

\* The calls of the hooks.
HookCalls == Events("onSuccess", "call") \cup Events("onError", "call")

\* Validation and permission passed and the chain is over.
PassedAndOver ==
  /\ Events("checkPermissions", "return") # {}
  /\ pc \in {"onSuccess", "onError", "settled"}

\* Every layer above layer k (more derived) awaits super.aroundExecute
\* exactly once.
CalledOnce(k) ==
  \A j \in DOMAIN cls.layers :
     j > k => cls.layers[j] \in {"std", "catch", "tx", "transform"}

\* C29 as stated: an invocation that passes validation and permission opens
\* exactly one transaction and closes it exactly once, with COMMIT if and
\* only if the inner chain resolved and ROLLBACK if and only if it raised,
\* the close coming before onSuccess or onError is invoked; an invocation
\* that fails validation or permission opens no transaction.
C29_Original ==
  \A k \in TxLayers :
     /\ PassedAndOver =>
          /\ Cardinality(Opens(k)) = 1 /\ Cardinality(Closes(k)) = 1
          /\ \A c \in Closes(k), h \in HookCalls : c < h
     /\ Events("checkPermissions", "return") = {} => Opens(k) = {}

\* C29 as amended: each time the layer's aroundExecute is entered it opens
\* one transaction and closes it exactly once before it returns, with COMMIT
\* if and only if the inner chain resolved and ROLLBACK if and only if it
\* raised, and every close happens before onSuccess or onError is invoked; an
\* invocation that fails validation or permission opens no transaction; an
\* invocation that passes them opens exactly one when every more derived
\* layer calls super.aroundExecute exactly once, none when such a layer
\* raises, returns or calls proceed itself, and one per attempt when such a
\* layer retries.
C29_Transaction ==
  \A k \in TxLayers :
     /\ \A i \in Opens(k) :
          /\ trace[i - 1].who = "aroundExecute" /\ trace[i - 1].ev = "call"
          /\ trace[i - 1].layer = k
     /\ Cardinality(Opens(k)) =
          Cardinality({i \in Events("aroundExecute", "call") : trace[i].layer = k})
     /\ \A c \in Closes(k) :
          /\ \E i \in Opens(k) :
               /\ i < c
               /\ \A j \in Opens(k) \cup Closes(k) : ~(i < j /\ j < c)
          /\ c \in Commits(k) <=> trace[c - 1].ev = "return"
          /\ c \in Rollbacks(k) <=> trace[c - 1].ev = "raise"
          /\ trace[c - 1].who \in {"aroundExecute", "execute"}
          /\ trace[c + 1].who = "aroundExecute" /\ trace[c + 1].layer = k
          /\ trace[c + 1].ev = trace[c - 1].ev
          /\ \A h \in HookCalls : c < h
     /\ Cardinality(Closes(k)) <= Cardinality(Opens(k))
     /\ Cardinality(Opens(k)) <= Cardinality(Closes(k)) + 1
     /\ pc \in {"onSuccess", "onError", "settled"} =>
          Cardinality(Closes(k)) = Cardinality(Opens(k))
     /\ Events("checkPermissions", "return") = {} => Opens(k) = {}
     /\ (PassedAndOver /\ CalledOnce(k)) =>
          Cardinality(Opens(k)) = 1 /\ Cardinality(Closes(k)) = 1
     /\ (PassedAndOver /\ \E j \in DOMAIN cls.layers :
                            j > k /\ cls.layers[j] \in {"raise", "skip", "direct"}) =>
          Opens(k) = {}

\* execute raised inside the transaction: it was rolled back before onError
\* was invoked.
C29_Witness ==
  /\ IsSettled /\ cls.layers = <<"tx">>
  /\ Events("execute", "raise") # {}
  /\ Cardinality(Opens(1)) = 1 /\ Cardinality(Rollbacks(1)) = 1 /\ Commits(1) = {}
  /\ \A c \in Rollbacks(1), h \in Events("onError", "call") : c < h

-----------------------------------------------------------------------------
TransformLayers == {k \in DOMAIN cls.layers : cls.layers[k] = "transform"}

\* The data execute is to be given at call i: the validated data, transformed
\* when a transforming layer was entered on the way down.
HandedDown(i) ==
  IF \E j \in Events("aroundExecute", "call") :
        j < i /\ trace[j].layer \in TransformLayers
  THEN Transformed(ValidatedData)
  ELSE ValidatedData

\* Whatever the layers do with the data: execute is given what the innermost
\* layer passed to proceed, and context.cleanData stays the validated data.
DataFlow ==
  /\ \A i \in Events("execute", "call") :
       /\ trace[i - 1].who = "aroundExecute" /\ trace[i - 1].ev = "call"
       /\ trace[i - 1].layer = 0 \/ cls.layers[trace[i - 1].layer] = "direct"
       /\ trace[i].val = trace[i - 1].val
       /\ trace[i].val = HandedDown(i)
       /\ trace[i].ctx.cleanData = ValidatedData
  /\ Called("checkPermissions") => context.cleanData = ValidatedData
  /\ \A i \in HookCalls :
       Events("validate", "return") # {} => trace[i].ctx.cleanData = ValidatedData

\* C30 as stated: execute receives exactly the data that the innermost
\* aroundExecute layer passed to proceed, run resolves with the value the
\* outermost layer returned, and context.cleanData stays the validated data.
C30_Original ==
  /\ DataFlow
  /\ \A i \in OutermostReturns : IsSettled => settled = Resolved(trace[i].val)

\* C30 as amended: execute receives exactly the data that the innermost
\* aroundExecute layer passed to proceed (which differs from the validated
\* data when a layer transformed it); when the outermost layer returns and
\* onSuccess completes without raising, run resolves with the value the
\* outermost layer returned, and run never resolves with anything else (when
\* onSuccess raises, run rejects with its error or with that of onError);
\* a layer's transformation of the data does not change context.cleanData,
\* which stays the validated data.
C30_DataFlow ==
  /\ DataFlow
  /\ IsSettled =>
       /\ \A i \in OutermostReturns :
            /\ OnSuccessReturned => settled = Resolved(trace[i].val)
            /\ OnSuccessRaised => settled.state = "rejected"
            /\ OnSuccessReturned \/ OnSuccessRaised
       /\ settled.state = "resolved" =>
            \E i \in OutermostReturns : settled.val = trace[i].val

\* A layer transformed the data: execute got the transformed data, run
\* resolved with execute's result for it, cleanData is the validated data.
C30_Witness ==
  /\ IsSettled /\ settled.state = "resolved"
  /\ \E i \in Events("execute", "call") :
       /\ trace[i].val = Transformed(ValidatedData)
       /\ trace[i].val # ValidatedData
       /\ settled.val = Result(trace[i].val)
  /\ context.cleanData = ValidatedData

-----------------------------------------------------------------------------
\* C31 as stated: if onSuccess raises after the chain completed, onError is
\* invoked with the error raised by onSuccess and a context whose endTime
\* and executionTimeMs are set, and run rejects with that error.
C31_Original ==
  (IsSettled /\ OnSuccessRaised) =>
     /\ \A i \in Events("onError", "call") :
          trace[i].err = OnSuccessHookError /\ Stamped(trace[i].ctx)
     /\ Called("onError")
     /\ settled = Rejected(OnSuccessHookError)

\* C31 as amended: if onSuccess raises after the chain completed, onError is
\* then invoked, once, with the error raised by onSuccess and with the
\* context onSuccess was given, whose endTime and executionTimeMs are set;
\* run rejects although the chain completed, with that error when onError
\* completes and with the error of onError when onError raises; the result of
\* the chain is not returned to the caller.
C31_OnSuccessRaises ==
  OnSuccessRaised =>
     /\ ChainCompleted
     /\ Len(OnErrorArgs) = 1
     /\ OnErrorArgs[1].err = OnSuccessHookError
     /\ \A r \in Events("onSuccess", "raise") :
          /\ trace[r].err = OnSuccessHookError
          /\ trace[r + 1] = OnErrorArgs[1]
     /\ Stamped(OnErrorArgs[1].ctx)
     /\ \A j \in Events("onSuccess", "call") : trace[j].ctx = OnErrorArgs[1].ctx
     /\ settled.state # "resolved"
     /\ IsSettled =>
          /\ settled.state = "rejected"
          /\ OnErrorReturned => settled = Rejected(OnSuccessHookError)
          /\ OnErrorRaised => settled = Rejected(OnErrorHookError)

\* execute returned, onSuccess raised, onError completed: run rejected with
\* the error of onSuccess.
C31_Witness ==
  /\ IsSettled /\ OnSuccessRaised /\ OnErrorReturned
  /\ Events("execute", "return") # {}
  /\ settled = Rejected(OnSuccessHookError)
  /\ result.k = "result"

-----------------------------------------------------------------------------
\* The calls of proceed: by the default aroundExecute and by the overrides
\* that call it themselves.
ProceedCalls ==
  {i \in Events("aroundExecute", "call") :
     trace[i].layer = 0 \/ cls.layers[trace[i].layer] = "direct"}

\* The returns of a layer that had caught an error of its inner chain: a
\* catch layer returning its own value, a retry layer returning what its
\* second attempt gave.
Recoveries ==
  {r \in Events("aroundExecute", "return") :
     \/ /\ cls.layers[trace[r].layer] = "catch"
        /\ trace[r - 1].ev = "raise"
     \/ /\ cls.layers[trace[r].layer] = "retry"
        /\ \E t \in Events("aroundExecute", "retry") :
             /\ t < r /\ trace[t].layer = trace[r].layer
             /\ \A x \in Events("aroundExecute", "return") \cup Events("aroundExecute", "raise") :
                  trace[x].layer = trace[r].layer => ~(t < x /\ x < r)}

ChainOver == pc \in {"onSuccess", "onError", "settled"}

\* C32 as stated: the number of execute calls equals the number of calls of
\* proceed; and if a layer catches an error of proceed and then returns a
\* value, run resolves with that value, onSuccess is invoked and onError is
\* not.
C32_Original ==
  /\ NCalls("execute") = Cardinality(ProceedCalls)
  /\ \A r \in Recoveries :
       /\ ChainOver => \E s \in Events("onSuccess", "call") : trace[s].val = trace[r].val
       /\ IsSettled => settled = Resolved(trace[r].val) /\ ~Called("onError")

\* C32 as amended: the number of execute calls equals the number of calls of
\* proceed made by the chain (0, 1 or more), each call of proceed being one
\* call of execute; if a layer catches an error raised by its inner chain and
\* then returns a value, the chain completes with that value and onSuccess is
\* invoked with it; when onSuccess completes without raising, run resolves
\* with that value and onError is not invoked; when onSuccess raises, onError
\* is invoked with its error and run rejects.
C32_ProceedAndRecovery ==
  /\ NCalls("execute") = Cardinality(ProceedCalls)
  /\ \A i \in ProceedCalls : trace[i + 1].who = "execute" /\ trace[i + 1].ev = "call"
  /\ RetryLayers = {} => NCalls("execute") <= 1
  /\ \A r \in Recoveries :
       /\ ChainOver =>
            /\ ChainCompleted
            /\ \E s \in Events("onSuccess", "call") : trace[s].val = trace[r].val
       /\ IsSettled =>
            /\ OnSuccessReturned => settled = Resolved(trace[r].val) /\ ~Called("onError")
            /\ OnSuccessRaised =>
                 /\ settled.state = "rejected"
                 /\ Len(OnErrorArgs) = 1 /\ OnErrorArgs[1].err = OnSuccessHookError
            /\ OnSuccessReturned \/ OnSuccessRaised

\* execute raised, the layer called its inner chain again, execute returned:
\* two calls of execute, run resolved with the second result.
C32_Witness ==
  /\ IsSettled /\ cls.layers = <<"retry">>
  /\ NCalls("execute") = 2 /\ Cardinality(ProceedCalls) = 2
  /\ Events("execute", "raise") # {} /\ Recoveries # {}
  /\ settled.state = "resolved" /\ settled.val.k = "result"
  /\ ~Called("onError")

-----------------------------------------------------------------------------
\* The invocations whose validation failed.
FailedValidation == {i \in Started : ~inv[i].awaited.ok}

\* The field errors of invocation i's own input under the rules of the
\* validator it used.
OwnErrors(i) == LIVRErrors(heap[inv[i].used].validator.rules, inv[i].inputData)

\* C33: although the invocations of a class share one stateful validator,
\* the fields of the ServiceError of a failing invocation are the errors of
\* that invocation's own input, however it interleaves with the others:
\* whatever errors the shared validator holds by now, the error validate
\* raised, the one handed to onError and the one run rejects with carry the
\* own errors.
C33_OwnErrors ==
  \A i \in FailedValidation :
     LET r == inv[i]
     IN /\ r.awaited.err = ValidationError(OwnErrors(i))
        /\ OwnErrors(i) # Obj({})
        /\ r.pc \in {"onError", "settled"} =>
             /\ r.caught = ValidationError(OwnErrors(i))
             /\ r.hook.err = ValidationError(OwnErrors(i))
        /\ r.pc = "settled" => r.settled = Rejected(ValidationError(OwnErrors(i)))

\* A failing run settled with the errors of its own input after a later run
\* of the same class, with a passing input, had cleared the errors of the
\* validator they share.
C33_Witness ==
  \E i, j \in Started :
     /\ i # j /\ inv[i].class = "Parent" /\ inv[j].class = "Parent"
     /\ inv[i].used = inv[j].used
     /\ inv[j].awaited.ok
     /\ heap[inv[i].used].validator.errors = Null
     /\ inv[i].pc = "settled"
     /\ inv[i].settled = Rejected(ValidationError(Obj({<<"name", "REQUIRED">>})))

-----------------------------------------------------------------------------
\* A step that is a call of validate(inputData) on the class as it stands.
ValidateStep ==
  /\ cls' = cls /\ trace' # <<>> /\ trace'[1].who = "validate"

\* C34: once the class's validator is cached, assigning another rule object
\* to the static validation does not rebuild it: a later call is validated
\* against the rules compiled at the first call; the well-formedness check
\* and the pass-through of a class without schema are made on the current
\* value of validation in every call.
C34_StaleValidator ==
  [][ /\ validator.built => validator'.built /\ validator'.rules = validator.rules
      /\ cls' # cls => validator' = validator
      /\ ValidateStep =>
           LET inputData == trace'[1].val
               validation == cls.validation
           IN IF validation.k \in {"null", "string"}
              THEN /\ awaited' = Throw(ConfigurationError)
                   /\ validator' = validator
              ELSE IF validation = Undefined
              THEN /\ awaited' = Ret(IF inputData.k \in {"null", "undefined"}
                                     THEN Obj({}) ELSE inputData)
                   /\ validator' = validator
              ELSE LET rules == IF validator.built THEN validator.rules ELSE validation
                   IN /\ validator'.built /\ validator'.rules = rules
                      /\ awaited'.ok <=> ~LIVRFails(rules, inputData)
                      /\ awaited'.ok => awaited'.val = LIVRClean(rules, inputData)
                      /\ ~awaited'.ok => awaited'.err.type = "ServiceError"
    ]_vars

\* The validator compiled from the first rules accepted an input that the
\* rules assigned since would reject.
C34_Witness ==
  /\ validator.built /\ validator.rules = StaticRules
  /\ cls.validation = DynamicRules
  /\ trace # <<>> /\ trace[1].who = "validate"
  /\ trace[1].val = Obj({<<"name", "a">>})
  /\ awaited = Ret(Obj({<<"name", "a">>}))

-----------------------------------------------------------------------------
\* Call i of execute runs inside a transaction: one was begun before it and
\* not yet committed or rolled back.
InTransaction(i) ==
  \E b \in Events("withTransaction", "BEGIN") :
     /\ b < i
     /\ \A c \in Events("withTransaction", "COMMIT") \cup Events("withTransaction", "ROLLBACK") :
          ~(b < c /\ c < i)

\* C35: in the simple example (UsersCreate extending the Base of
\* examples/simple) every execute call runs inside db.withTransaction,
\* between BEGIN TRANSACTION and COMMIT or ROLLBACK, and onSuccess processes
\* the published events only after the transaction has committed.
C35_InsideTransaction ==
  cls = UsersCreate(ExampleBaseMethods) =>
     /\ \A i \in Events("execute", "call") : InTransaction(i)
     /\ \A s \in Events("onSuccess", "call") :
          \E c \in Events("withTransaction", "COMMIT") : c < s

\* The same with the Base of the README, which wraps aroundExecute.
ReadmeInsideTransaction ==
  cls = UsersCreate(ReadmeBaseMethods) =>
     /\ \A i \in Events("execute", "call") : InTransaction(i)
     /\ \A s \in Events("onSuccess", "call") :
          \E c \in Events("withTransaction", "COMMIT") : c < s

\* A run of the example's UsersCreate resolved: execute was called and
\* onSuccess completed, and no transaction was ever begun.
C35_Witness ==
  /\ cls = UsersCreate(ExampleBaseMethods) /\ IsSettled
  /\ settled.state = "resolved" /\ Called("execute") /\ OnSuccessReturned
  /\ Events("withTransaction", "BEGIN") = {}
  /\ Events("withTransaction", "COMMIT") = {}


-----------------------------------------------------------------------------
(* LegacySpec.  The v1 API: ServiceBase.run with its cached validator       *)
(* (src/ServiceBase.js), Exception (src/Exception.js), runService,          *)
(* makeServiceRunner and renderPromiseAsJson, and consoleLogger.  Classes   *)
(* Parent and Child declare static validationRules each; Child extends      *)
(* Parent or ServiceBase.  One call is in flight at a time; stack holds the  *)
(* functions suspended in their await, outermost first, trace the history   *)
(* of the call in flight, heap and slots the validators constructed and the  *)
(* classes' own cachedValidator properties.                                  *)

\* static validationRules of the class
validationRules(c) == Schema(c)

\* The params explored.
LegacyParams == ConcInputs

\* new Exception({ code, fields }): threw tells whether the constructor
\* threw; e is the error that comes out.
Exception(code, fields) ==
  IF ~Truthy(fields) THEN [threw |-> TRUE, e |-> PlainError("FIELDS_REQUIRED")]
  ELSE IF code = "" THEN [threw |-> TRUE, e |-> PlainError("MESSAGE_REQUIRED")]
  ELSE [threw |-> FALSE, e |-> Err("Exception", code, fields, 0)]

\* exception.toHash(): the fields and the code, nothing else of the error.
toHash(e) == Err("hash", e.code, e.fields, 0)

TypeError(msg) == Err("TypeError", msg, Undefined, 0)
\* A rejection whose reason is undefined (throw undefined, Promise.reject()).
NoReason == Err("undefined", "", Undefined, 0)
LoggerError == PlainError("logger raised")

\* What user code of the v1 API raises.
LegacyErrors ==
  { Exception("PERMISSION_DENIED", Obj({<<"token", "WRONG_TOKEN">>})).e,
    PlainError("boom"), PlainError("secret"), NoReason }

\* A result that refers to itself.
Circular == Val("circular", {})

\* JSON.stringify(value)
JSONStringify(v) ==
  IF v.k = "circular" THEN Throw(TypeError("Converting circular structure to JSON"))
  ELSE IF v.k = "undefined" THEN Ret(Undefined)
  ELSE Ret(Val("json", v.o))

\* Mutant: a failed validation raises a plain Error.
LegacyDoValidationWithValidator_Plain(params, livr) ==
  LET r == LIVRValidate(livr, params)
  IN [out |-> IF Truthy(r.val) THEN Ret(r.val) ELSE Throw(PlainError("FORMAT_ERROR")),
      validator |-> r.validator]

\* _doValidationWithValidator(data, validator)
LegacyDoValidationWithValidator(params, livr) ==
  LET r == LIVRValidate(livr, params)
  IN [out |-> IF Truthy(r.val) THEN Ret(r.val)
              ELSE Throw(Exception("FORMAT_ERROR", GetErrors(r.validator)).e),
      validator |-> r.validator]

\* validate(data) of the v1 ServiceBase: this.constructor.cachedValidator is
\* read through the constructor's prototype chain and assigned to the class.
LegacyValidate(c, params) ==
  LET ref == ReadValidator(c)
      at == IF ref = 0 THEN Len(heap) + 1 ELSE ref
      livr == IF ref = 0 THEN NewValidator(validationRules(c)) ELSE heap[ref].validator
      r == LegacyDoValidationWithValidator(params, livr)
  IN [out |-> r.out,
      heap |-> IF ref = 0 THEN Append(heap, [validator |-> r.validator, class |-> c])
               ELSE [heap EXCEPT ![ref].validator = r.validator],
      slots |-> [slots EXCEPT ![c] = at]]

\* The loggers given: the default one and one that throws.
Loggers == {"consoleLogger", "throwing"}

\* consoleLogger(type, data): the console method used.
consoleLogger(type) ==
  IF type = "error" THEN "error" ELSE IF type = "info" THEN "info" ELSE "debug"

\* logger(type, { ..., result }) and what it leaves in the history.
Log(logger, type, val, err) ==
  [ok |-> logger = "consoleLogger",
   events |-> << Ev("logger", type, 0, val, err, NoContext) >>
              \o IF logger = "consoleLogger"
                 THEN << Ev("console", consoleLogger(type), 0, val, err, NoContext) >>
                 ELSE << >>]

LegacyFrame(fn, logger) == [logger |-> logger, fn |-> fn]

\* The legacy service class run: its name and whether it defines checkPermissions.
LegacyClass(c, cp) == [name |-> c, checkPermissions |-> cp]
CheckPermissionsKinds == {"function", "undefined"}

LegacyIdle == pc \in {"idle", "done"}

\* A function of the stack ends with outcome out: its caller, if any, resumes
\* from its await.
Finish(out, frames) ==
  /\ stack' = frames
  /\ awaited' = out
  /\ IF frames = << >>
     THEN /\ pc' = "done"
          /\ settled' = IF out.ok THEN Resolved(out.val) ELSE Rejected(out.err)
     ELSE /\ pc' = frames[Len(frames)].fn
          /\ settled' = Pending

Outer == SubSeq(stack, 1, Len(stack) - 1)

\* const cleanParams = await this.validate(params): the whole of validate,
\* up to the await.
AwaitValidate(c, params, events) ==
  LET v == LegacyValidate(c, params)
  IN /\ heap' = v.heap
     /\ slots' = v.slots
     /\ awaited' = v.out
     /\ pc' = "validate"
     /\ trace' = events \o << Ev("validate", "call", 0, params, NoError, NoContext),
                              Outcome("validate", v.out) >>

\* run(params) up to its first await.
EnterRun(class, params, ctx, frames) ==
  /\ LegacyIdle
  /\ cls' = class
  /\ data' = params
  /\ context' = ctx
  /\ stack' = frames
  /\ settled' = Pending
  /\ UNCHANGED <<validator, cur, result, caught, calls, childExtends, inv>>
  /\ IF class.checkPermissions = "function"
     THEN /\ pc' = "checkPermissions"
          /\ awaited' = Ret(Undefined)
          /\ trace' = << Ev("checkPermissions", "call", 0, Undefined, NoError, NoContext) >>
          /\ UNCHANGED <<heap, slots>>
     ELSE AwaitValidate(class.name, params, << >>)

\* new serviceClass({ context: {} }).run(params)
CallRun(class, params) ==
  EnterRun(class, params, Obj({}), << LegacyFrame("run", "none") >>)

\* await this.checkPermissions() is over.
LegacyCheckPermissionsSettles(out) ==
  /\ pc = "checkPermissions"
  /\ UNCHANGED <<cls, validator, context, cur, data, result, caught, calls, childExtends, inv>>
  /\ IF out.ok
     THEN /\ AwaitValidate(cls.name, data,
                           Append(trace, Ev("checkPermissions", "return", 0, out.val,
                                            NoError, NoContext)))
          /\ UNCHANGED <<stack, settled>>
     ELSE /\ trace' = Append(trace, Ev("checkPermissions", "raise", 0, Undefined, out.err, NoContext))
          /\ Finish(out, Outer)
          /\ UNCHANGED <<heap, slots>>

\* Mutant: execute is given the params as they came in.
LegacyValidateSettles_RawParams ==
  /\ pc = "validate"
  /\ UNCHANGED <<cls, validator, context, cur, data, result, caught, calls, cvars>>
  /\ IF awaited.ok
     THEN /\ pc' = "execute"
          /\ trace' = Append(trace, Ev("execute", "call", 0, data, NoError, NoContext))
          /\ UNCHANGED <<stack, awaited, settled>>
     ELSE /\ trace' = trace
          /\ Finish(awaited, Outer)

\* await this.validate(params) is over; return this.execute(cleanParams).
LegacyValidateSettles ==
  /\ pc = "validate"
  /\ UNCHANGED <<cls, validator, context, cur, data, result, caught, calls, cvars>>
  /\ IF awaited.ok
     THEN /\ pc' = "execute"
          /\ trace' = Append(trace, Ev("execute", "call", 0, awaited.val, NoError, NoContext))
          /\ UNCHANGED <<stack, awaited, settled>>
     ELSE /\ trace' = trace
          /\ Finish(awaited, Outer)

\* What execute resolves with, given the params it was called with.
ExecuteResults(params) == {Result(params), Undefined, Circular}

\* The promise execute returned settles, and run's with it.
LegacyExecuteSettles(out) ==
  /\ pc = "execute"
  /\ UNCHANGED <<cls, validator, context, cur, data, result, caught, calls, cvars>>
  /\ trace' = Append(trace, Outcome("execute", out))
  /\ Finish(out, Outer)

\* Mutant: every rejection is logged as an error.
runService_AllErrors(out, logger) ==
  LET json == JSONStringify(out.val)
      logged == IF out.ok THEN Log(logger, "info", json.val, NoError)
                ELSE Log(logger, "error", Undefined, out.err)
  IN [events |-> << Outcome("service", out) >> \o logged.events
                 \o << Outcome("runService", out) >>,
      out |-> out]

\* runService after its await: what the service came to, the log records and
\* the outcome of the call.  out is what new serviceClass({ context }).run(params)
\* came to.
runService(out, logger) ==
  LET json == JSONStringify(out.val)
      tried == Log(logger, "info", IF json.ok THEN json.val ELSE Undefined, NoError)
      logsResult == out.ok /\ json.ok
      inCatch == ~out.ok \/ ~json.ok \/ ~tried.ok
      error == IF ~out.ok THEN out.err ELSE IF ~json.ok THEN json.err ELSE LoggerError
      type == IF error.type = "Exception" THEN "info" ELSE "error"
      logged == Log(logger, type, Undefined, error)
      ends == IF ~inCatch THEN Ret(out.val)
              ELSE IF logged.ok THEN Throw(error) ELSE Throw(LoggerError)
  IN [events |-> << Outcome("service", out) >>
                 \o (IF logsResult THEN tried.events ELSE << >>)
                 \o (IF inCatch THEN logged.events ELSE << >>)
                 \o << Outcome("runService", ends) >>,
      out |-> ends]

\* The context given to runService; undefined takes the default {}.
LegacyContexts == {Undefined, Obj({}), Null}

\* runService(serviceClass, { context, params, logger }) up to its await.  A
\* constructor that throws CONTEXT_REQUIRED does so inside the try.
EnterRunService(class, params, ctx, logger, frames) ==
  LET context0 == IF ctx.k = "undefined" THEN Obj({}) ELSE ctx
      mine == Append(frames, LegacyFrame("runService", logger))
  IN IF Truthy(context0)
     THEN EnterRun(class, params, context0, Append(mine, LegacyFrame("run", "none")))
     ELSE /\ LegacyIdle
          /\ cls' = class
          /\ data' = params
          /\ context' = context0
          /\ UNCHANGED <<validator, cur, result, caught, calls, cvars>>
          /\ LET r == runService(Throw(PlainError("CONTEXT_REQUIRED")), logger)
             IN /\ trace' = r.events
                /\ Finish(r.out, frames)

CallRunService(class, params, ctx, logger) ==
  EnterRunService(class, params, ctx, logger, << >>)

\* runService resumes from its await.
RunServiceResumes ==
  /\ pc = "runService"
  /\ UNCHANGED <<cls, validator, context, cur, data, result, caught, calls, cvars>>
  /\ LET r == runService(awaited, stack[Len(stack)].logger)
     IN /\ trace' = trace \o r.events
        /\ Finish(r.out, Outer)

\* data.status = 1
IsExtensible(v) == v.k \in {"obj", "result", "circular"}
WithStatus(v) == Val(v.k, v.o \cup {<<"status", "1">>})

\* res.send(body): the body and, for a failure, its error member.
Send(body, error) == Ev("send", "call", 0, body, error, NoContext)
Failure == Val("response", {<<"status", "0">>})
ServerError == Err("hash", "SERVER_ERROR", Undefined, 0)

\* Mutant: the error's code goes into the response.
renderPromiseAsJson_Leaks(out, logger) ==
  LET error == IF out.ok THEN TypeError("Cannot create property 'status'") ELSE out.err
  IN IF out.ok /\ IsExtensible(out.val)
     THEN [events |-> << Send(WithStatus(out.val), NoError) >>, out |-> Ret(Undefined)]
     ELSE [events |-> << Send(Failure, toHash(error)) >>, out |-> Ret(Undefined)]

\* renderPromiseAsJson after its await: what is logged and sent, and the
\* outcome of the call.  out is what the promise came to.
renderPromiseAsJson(out, logger) ==
  LET error == IF out.ok THEN TypeError("Cannot create property 'status'") ELSE out.err
      logged == Log(logger, "error", Undefined, error)
  IN IF out.ok /\ IsExtensible(out.val)
     THEN [events |-> << Send(WithStatus(out.val), NoError) >>, out |-> Ret(Undefined)]
     ELSE IF error.type = "Exception"
     THEN [events |-> << Send(Failure, toHash(error)) >>, out |-> Ret(Undefined)]
     ELSE IF error.type = "undefined"
     THEN [events |-> << >>, out |-> Throw(TypeError("Cannot read property 'stack'"))]
     ELSE IF logged.ok
     THEN [events |-> logged.events \o << Send(Failure, ServerError) >>, out |-> Ret(Undefined)]
     ELSE [events |-> logged.events, out |-> Throw(LoggerError)]

\* What a promise given to renderPromiseAsJson comes to.
Promises ==
  {Ret(v) : v \in {Obj({}), Obj({<<"name", "a">>}), Undefined, Null, Str("ok")}}
  \cup {Throw(e) : e \in LegacyErrors}

\* renderPromiseAsJson(req, res, promise, logger) up to its await
CallRenderPromiseAsJson(promise, logger) ==
  /\ LegacyIdle
  /\ UNCHANGED <<validator, cur, result, caught, calls, cvars>>
  /\ cls' = LegacyClass("Parent", "undefined")
  /\ data' = Undefined
  /\ context' = Undefined
  /\ trace' = << >>
  /\ stack' = << LegacyFrame("renderPromiseAsJson", logger) >>
  /\ awaited' = promise
  /\ pc' = "renderPromiseAsJson"
  /\ settled' = Pending

\* serviceRunner(req, res) of makeServiceRunner: runService, its promise
\* handed to renderPromiseAsJson, both with the same logger.
CallServiceRunner(class, params, ctx, logger) ==
  EnterRunService(class, params, ctx, logger, << LegacyFrame("renderPromiseAsJson", logger) >>)

\* renderPromiseAsJson resumes from its await: what the promise came to, then
\* what is logged and sent.
RenderResumes ==
  /\ pc = "renderPromiseAsJson"
  /\ UNCHANGED <<cls, validator, context, cur, data, result, caught, calls, cvars>>
  /\ LET r == renderPromiseAsJson(awaited, stack[Len(stack)].logger)
     IN /\ trace' = Append(trace, Outcome("promise", awaited)) \o r.events
        /\ Finish(r.out, Outer)

LegacyClasses == {LegacyClass(c, cp) : c \in ClassNames, cp \in CheckPermissionsKinds}

LegacyInit ==
  /\ childExtends \in BOOLEAN
  /\ heap = << >>
  /\ slots = [c \in ClassNames |-> 0]
  /\ inv = [i \in Invocations |-> NotStarted]
  /\ cls = LegacyClass("Parent", "undefined")
  /\ validator = NoValidator
  /\ pc = "idle"
  /\ context = Undefined
  /\ awaited = Ret(Undefined)
  /\ cur = 0
  /\ data = Undefined
  /\ stack = << >>
  /\ result = Undefined
  /\ caught = NoError
  /\ settled = Pending
  /\ trace = << >>
  /\ calls = << >>

LegacyNext ==
  \/ \E class \in LegacyClasses, params \in LegacyParams : CallRun(class, params)
  \/ \E class \in LegacyClasses, params \in LegacyParams, ctx \in LegacyContexts,
        logger \in Loggers : CallRunService(class, params, ctx, logger)
  \/ \E class \in LegacyClasses, params \in LegacyParams, ctx \in LegacyContexts,
        logger \in Loggers : CallServiceRunner(class, params, ctx, logger)
  \/ \E promise \in Promises, logger \in Loggers : CallRenderPromiseAsJson(promise, logger)
  \/ \E out \in {Ret(Undefined), Ret(False)} \cup {Throw(e) : e \in LegacyErrors} :
        LegacyCheckPermissionsSettles(out)
  \/ LegacyValidateSettles
  \/ \E v \in ExecuteResults(awaited.val) : LegacyExecuteSettles(Ret(v))
  \/ \E e \in LegacyErrors : LegacyExecuteSettles(Throw(e))
  \/ RunServiceResumes
  \/ RenderResumes

LegacySpec == LegacyInit /\ [][LegacyNext]_<<vars, cvars>>


-----------------------------------------------------------------------------
(* Reading the history of LegacySpec.                                       *)

RunPhases == {"checkPermissions", "validate", "execute"}
RunEvents == {i \in DOMAIN trace : trace[i].who \in RunPhases}
InRun == \E i \in DOMAIN stack : stack[i].fn = "run"
RunOver == RunEvents # {} /\ ~InRun

\* What run's promise came to: the outcome of the last phase run entered.
RunLast == trace[CHOOSE i \in RunEvents : \A j \in RunEvents : j <= i]
RunRejectedWith(type, code) ==
  /\ RunOver /\ RunLast.ev = "raise"
  /\ RunLast.err.type = type /\ RunLast.err.code = code

\* The input fails the validationRules of the class run.
FailsOwnRules == LIVRFails(validationRules(cls.name), data)

\* The validator run used was built from the rules of the class run.
OwnValidator == slots[cls.name] # 0 /\ heap[slots[cls.name]].class = cls.name

LegacyOrder ==
  /\ \A p \in Events("checkPermissions", "call") :
        /\ trace[p].val = Undefined
        /\ \A v \in Events("validate", "call") : p < v
  /\ cls.checkPermissions = "function" /\ Called("validate")
        => Events("checkPermissions", "return") # {}
  /\ \A e \in Events("execute", "call") :
        \E v \in Events("validate", "return") :
           /\ v < e
           /\ trace[e].val = trace[v].val
           /\ cls.checkPermissions = "function"
                 => \E p \in Events("checkPermissions", "return") : p < v

\* C36: in the v1 run, checkPermissions, when defined, is called before
\* validate and without the input; execute is called only after both have
\* resolved and only with the validator's output; an input failing the
\* class's validationRules rejects with an Exception of code FORMAT_ERROR and
\* execute is never called.
C36_LegacyRun ==
  /\ LegacyOrder
  /\ RunOver /\ FailsOwnRules
        => RunRejectedWith("Exception", "FORMAT_ERROR") /\ ~Called("execute")

\* The same with the rejection required only of a run whose checkPermissions
\* resolved and whose validator was built from the class's own rules.
LegacyRunOwnValidator ==
  /\ LegacyOrder
  /\ RunOver /\ FailsOwnRules
        => /\ ~Called("execute") \/ ~OwnValidator
           /\ Events("checkPermissions", "raise") = {} /\ OwnValidator
                 => RunRejectedWith("Exception", "FORMAT_ERROR")

\* A run of Child, after one of the Parent it extends, resolves with an input
\* that fails Child's validationRules.
C36_Witness ==
  /\ cls.name = "Child" /\ childExtends /\ FailsOwnRules
  /\ RunOver /\ Called("execute") /\ RunLast.ev = "return"
  /\ ~OwnValidator


-----------------------------------------------------------------------------
\* What the promise given to renderPromiseAsJson came to, once it has resumed.
Rendered == {i \in DOMAIN trace : trace[i].who = "promise"}
Sends == Events("send", "call")
Response == trace[CHOOSE i \in Sends : TRUE]
RenderLogs == {i \in DOMAIN trace : trace[i].who = "logger" /\ \E p \in Rendered : p < i}

\* The one response of a call, for each way the promise ends.
ResponseFor(p) ==
  /\ Cardinality(Sends) = 1
  /\ p.ev = "return" => Response.val = WithStatus(p.val) /\ Response.err = NoError
  /\ p.ev = "raise" /\ p.err.type = "Exception"
        => /\ Response.val = Failure
           /\ Response.err.code = p.err.code /\ Response.err.fields = p.err.fields
  /\ p.ev = "raise" /\ p.err.type # "Exception"
        => /\ Response.val = Failure
           /\ Response.err.code = "SERVER_ERROR" /\ Response.err.fields = Undefined
           /\ \E l \in RenderLogs : trace[l].ev = "error" /\ trace[l].err = p.err

\* C37: renderPromiseAsJson does not reject when the promise given rejects,
\* and sends exactly one response per call: the resolved data with status 1,
\* { status: 0, error: toHash() } for an Exception, and for any other error
\* the generic SERVER_ERROR, which carries nothing of the error.
C37_Render ==
  \A i \in Rendered :
     /\ trace[i].ev = "raise" => settled.state # "rejected"
     /\ ResponseFor(trace[i])

\* The promise ended in a way the function handles: it resolved with a value
\* that takes a status property, or rejected with a reason that is not
\* undefined, and the logger, if called, returned.
Handled(p) ==
  /\ p.ev = "return" => IsExtensible(p.val)
  /\ p.ev = "raise" => p.err.type # "undefined"
  /\ \A l \in RenderLogs : \E c \in DOMAIN trace : c > l /\ trace[c].who = "console"

RenderHandled ==
  \A i \in Rendered :
     Handled(trace[i])
        => /\ settled.state = "resolved"
           /\ ResponseFor(trace[i])

\* The promise rejected with no reason: the call rejects and sends nothing.
C37_Witness ==
  /\ \E i \in Rendered : trace[i].ev = "raise" /\ trace[i].err = NoReason
  /\ settled.state = "rejected" /\ settled.err.type = "TypeError"
  /\ Sends = {}


-----------------------------------------------------------------------------
\* What the service run by runService came to, and what runService came to.
Serviced == {i \in DOMAIN trace : trace[i].who = "service"}
RunServiceEnds == {i \in DOMAIN trace : trace[i].who = "runService"}
LogsBetween(i, j) == {l \in DOMAIN trace : trace[l].who = "logger" /\ i < l /\ l < j}

LoggedOnce(i, j) ==
  LET s == trace[i]
      logs == LogsBetween(i, j)
  IN /\ Cardinality(logs) = 1
     /\ \A l \in logs :
           trace[l].ev = IF s.ev = "return" \/ s.err.type = "Exception"
                         THEN "info" ELSE "error"
     /\ trace[j].ev = s.ev /\ trace[j].val = s.val /\ trace[j].err = s.err

\* C38: runService writes exactly one log record per call, after the service
\* has settled: 'info' when the service resolved or rejected with an
\* Exception, 'error' when it rejected with anything else; it resolves with
\* the service's result and rejects with the service's error, unchanged.
C38_RunService ==
  \A i \in Serviced : \E j \in RunServiceEnds : i < j /\ LoggedOnce(i, j)

\* The same for the calls whose result JSON.stringify renders and whose
\* logger returned.
RunServiceRendered ==
  \A i \in Serviced : \E j \in RunServiceEnds :
     /\ i < j
     /\ /\ trace[i].val.k # "circular"
        /\ \A l \in LogsBetween(i, j) : trace[l + 1].who = "console"
        => LoggedOnce(i, j)

\* The service resolved with a result that refers to itself: runService logs
\* an error and rejects.
C38_Witness ==
  \E i \in Serviced : \E j \in RunServiceEnds :
     /\ i < j
     /\ trace[i].ev = "return" /\ trace[i].val = Circular
     /\ trace[j].ev = "raise" /\ trace[j].err.type = "TypeError"
     /\ \A l \in LogsBetween(i, j) : trace[l].ev = "error"
     /\ \E l \in LogsBetween(i, j) : trace[l + 1].who = "console"

====
